---- MODULE Spec2Model ----
(***************************************************************************)
(* A model of the e4s-cl container layer: the Container bind map and its   *)
(* enumeration, the Shifter driver's staging, and the introspection        *)
(* exchange between Container.get_data and the analyze command.            *)
(*                                                                         *)
(* Paths are modelled as pathlib does: a Path is its tuple of parts, the   *)
(* first part being "/" for an absolute path; strings are TLA+ strings.    *)
(***************************************************************************)
EXTENDS Integers, Sequences, FiniteSets, TLC

VARIABLES
    unlinked,     \* host filesystem: physical files removed since start
    bound_files,  \* Container.__bound_files, in dict insertion order
    nbinds,       \* number of bind_file calls made so far
    lastBind,     \* the arguments of the latest bind_file call, and what it recorded
    targeted,     \* history: destination -> (source, option) of the latest call targeting it
    lastEnum,     \* the result of the latest enumeration of Container.bound
    env,          \* Container.env
    ld_preload,   \* Container.ld_preload
    ld_lib_path,  \* Container.ld_lib_path
    temp_dir,     \* ShifterContainer.temp_dir: the staging directory held, or None
    staging,      \* the staging directories that exist on the host
    unref,        \* staging directories no object refers to, not yet finalized
    nruns,        \* number of run calls made so far
    alive,        \* the container object is still referred to
    lastRun,      \* the outcome of the latest ShifterContainer.run
    libc_v,       \* Container.libc_v
    libraries,    \* Container.libraries
    sys_stdout,   \* sys.stdout: the stream of the process, or the capture buffer
    ngets,        \* number of get_data calls made so far
    lastGet,      \* the outcome of the latest Container.get_data
    host,         \* the host process in get_data of the packaged tree
    guest,        \* the analyze process in the container
    pipe,         \* the pieces written to the control pipe and not yet read
    nexch,        \* number of get_data calls of the packaged tree so far
    loaded,       \* the container modules the package has imported
    BACKENDS,     \* containers.BACKENDS
    EXPOSED_BACKENDS, \* containers.EXPOSED_BACKENDS
    MIMES,        \* containers.MIMES
    call          \* the latest call of a function of the package, and its result

containerVars == <<bound_files, nbinds, lastBind, targeted>>
shifterVars == <<temp_dir, staging, unref, nruns, alive, lastRun>>
planVars == <<env, ld_preload, ld_lib_path>>
dataVars == <<libc_v, libraries, sys_stdout, ngets, lastGet>>
pipeVars == <<host, guest, pipe, nexch>>
registryVars == <<loaded, BACKENDS, EXPOSED_BACKENDS, MIMES>>
toolVars == <<loaded, BACKENDS, EXPOSED_BACKENDS, MIMES, call>>

vars == <<unlinked, bound_files, nbinds, lastBind, targeted, lastEnum,
          env, ld_preload, ld_lib_path, temp_dir, staging, unref, nruns, alive,
          lastRun, libc_v, libraries, sys_stdout, ngets, lastGet,
          host, guest, pipe, nexch,
          loaded, BACKENDS, EXPOSED_BACKENDS, MIMES, call>>

None == "None"

-----------------------------------------------------------------------------
(* Bounds *)

MaxBinds == 2
MaxRuns == 1
MaxGets == 2
MaxExchanges == 1
\* the number of pieces of a document the pipe holds
PipeCapacity == 3
\* the longest command line given to the entry point
MaxArgv == 3
\* the most lines of a Shifter configuration file
MaxLines == 3

-----------------------------------------------------------------------------
(* Strings *)

CharAt(s, i) == SubSeq(s, i, i)

StartsWith(s, prefix) ==
    /\ Len(s) >= Len(prefix)
    /\ SubSeq(s, 1, Len(prefix)) = prefix

\* Python's s[n:]
DropChars(s, n) == IF n >= Len(s) THEN "" ELSE SubSeq(s, n + 1, Len(s))

RECURSIVE SplitSlash(_, _, _)
\* s.split('/') from position i on, without the empty components
SplitSlash(s, i, cur) ==
    IF i > Len(s)
    THEN IF cur = "" THEN <<>> ELSE <<cur>>
    ELSE IF CharAt(s, i) = "/"
         THEN (IF cur = "" THEN <<>> ELSE <<cur>>) \o SplitSlash(s, i + 1, "")
         ELSE SplitSlash(s, i + 1, cur \o CharAt(s, i))

RECURSIVE JoinSlash(_)
JoinSlash(parts) ==
    IF parts = <<>> THEN ""
    ELSE IF Len(parts) = 1 THEN parts[1]
    ELSE parts[1] \o "/" \o JoinSlash(Tail(parts))

-----------------------------------------------------------------------------
(* pathlib *)

RECURSIVE DropDots(_)
\* pathlib drops the "." components (and the empty ones) when it parses
DropDots(parts) ==
    IF parts = <<>> THEN <<>>
    ELSE IF Head(parts) = "." THEN DropDots(Tail(parts))
    ELSE <<Head(parts)>> \o DropDots(Tail(parts))

\* Path(string).parts
PathOf(s) ==
    IF StartsWith(s, "/")
    THEN <<"/">> \o DropDots(SplitSlash(s, 1, ""))
    ELSE DropDots(SplitSlash(s, 1, ""))

IsAbsolute(p) == p # <<>> /\ p[1] = "/"

\* Path.as_posix()
AsPosix(p) ==
    IF p = <<>> THEN "."
    ELSE IF IsAbsolute(p) THEN "/" \o JoinSlash(Tail(p))
    ELSE JoinSlash(p)

\* Path(a, b): an absolute b replaces a
JoinPath(a, b) == IF IsAbsolute(b) THEN b ELSE a \o b

Parent(p) ==
    IF p = <<>> \/ p = <<"/">> THEN p ELSE SubSeq(p, 1, Len(p) - 1)

-----------------------------------------------------------------------------
(* The host filesystem *)

Cwd == <<"/", "w">>

\* The directories and the regular files of the host, by physical path.
HostDirs ==
    { PathOf(s) : s \in {"/", "/a", "/a/b", "/a/c", "/h", "/h/lib", "/w", "/tmp"} }

HostFiles == { PathOf(s) : s \in {"/a/c/f", "/h/x.so"} }

\* /l is a symbolic link to the directory /a
HostLinks == [p \in {PathOf("/l")} |-> "/a"]

Removable == { PathOf("/h/x.so") }

IsLink(p) == p \in DOMAIN HostLinks

RECURSIVE RealPath(_, _, _)
\* os.path.realpath: walk the components `rest` from the resolved `at`;
\* ".." steps to the parent of what is resolved so far, a link is followed.
RealPath(at, rest, fuel) ==
    IF rest = <<>> \/ fuel = 0 THEN at \o rest
    ELSE LET name == Head(rest)
             new == at \o <<name>>
         IN  IF name = ".." THEN RealPath(Parent(at), Tail(rest), fuel)
             ELSE IF IsLink(new)
                  THEN LET t == PathOf(HostLinks[new])
                       IN  RealPath(RealPath(IF IsAbsolute(t) THEN <<"/">> ELSE at,
                                             IF IsAbsolute(t) THEN Tail(t) ELSE t,
                                             fuel - 1),
                                    Tail(rest), fuel)
                  ELSE RealPath(new, Tail(rest), fuel)

\* Path.resolve()
Resolve(p) ==
    IF IsAbsolute(p) THEN RealPath(<<"/">>, Tail(p), 4)
    ELSE RealPath(Cwd, p, 4)

\* Path.is_dir(), Path.exists(): both follow links
IsDir(p) == Resolve(p) \in HostDirs

IsFile(p) == Resolve(p) \in HostFiles \ unlinked

Exists(p) == IsDir(p) \/ IsFile(p)

-----------------------------------------------------------------------------
(* Container: the bind map *)

READ_ONLY == 0
READ_WRITE == 1
FileOptions == {READ_ONLY, READ_WRITE}

\* The paths bind_file is called with, and the destinations it is given.
BindPaths == {"/a/b/../c/f", "/l/c/../c/f", "/h/x.so", "/h/lib"}

BindDests == {"/opt/x.so", "/h/lib"}

\* Container.BoundFile, with the dict key it is stored under
BoundFile(dest, path, option) ==
    [dest |-> PathOf(dest), path |-> PathOf(path), option |-> option]

\* _contains(path1, path2): path2 is in the tree of which path1 is the root
Contains(path1, path2) ==
    LET index == Len(path1)
    IN  path1 = SubSeq(path2, 1, IF Len(path2) < index THEN Len(path2) ELSE index)

\* The indices (1-based) of the ".." parts of a path
DotDotAt(path) == { i \in 1..Len(path) : path[i] = ".." }

\* _unrelative with the directories before ".." left out of `visited`
VisitedNoDotDot(string) ==
    LET path == PathOf(string)
    IN  {path, Resolve(path)}

\* _unrelative: the set `visited`
Visited(string) ==
    LET path == PathOf(string)
    IN  {path, Resolve(path)}
          \cup { Resolve(SubSeq(path, 1, i - 1)) : i \in DotDotAt(path) }

\* _unrelative without the test of containment: all of `visited`
UnrelativeAll(string) == { AsPosix(element) : element \in Visited(string) }

\* _unrelative: the set `deps`, as posix strings
Unrelative(string) ==
    LET visited == Visited(string)
    IN  { AsPosix(element) : element \in
            { e \in visited :
                ~ \E path \in visited : path # e /\ Contains(path, e) } }

\* The orders in which a Python set may be iterated
Orderings(S) ==
    { f \in [1..Cardinality(S) -> S] :
        \A i, j \in 1..Cardinality(S) : f[i] = f[j] => i = j }

IndexOf(files, dest) ==
    IF \E i \in 1..Len(files) : files[i].dest = dest
    THEN CHOOSE i \in 1..Len(files) : files[i].dest = dest
    ELSE 0

\* dict.setdefault in place of dict.update: the first value of a key is kept
DictKeepFirst(files, entry) ==
    IF IndexOf(files, entry.dest) = 0 THEN Append(files, entry) ELSE files

\* dict.update({key: value}): a known key keeps its place, a new one is appended
DictUpdate(files, entry) ==
    LET i == IndexOf(files, entry.dest)
    IN  IF i = 0 THEN Append(files, entry)
        ELSE [files EXCEPT ![i] = entry]

RECURSIVE UpdateAll(_, _)
UpdateAll(files, entries) ==
    IF entries = <<>> THEN files
    ELSE UpdateAll(DictUpdate(files, Head(entries)), Tail(entries))

\* The entries one bind_file call records, in order
BindEntries(path, dest, option, order) ==
    IF dest = None
    THEN [i \in 1..Len(order) |-> BoundFile(order[i], order[i], option)]
    ELSE <<BoundFile(dest, path, option)>>

RECURSIVE Retarget(_, _)
Retarget(hist, entries) ==
    IF entries = <<>> THEN hist
    ELSE LET e == Head(entries)
         IN  Retarget([d \in DOMAIN hist \cup {e.dest} |->
                          IF d = e.dest THEN [path |-> e.path, option |-> e.option]
                          ELSE hist[d]],
                      Tail(entries))

\* No enumeration result is at hand
NoEnum == [done |-> FALSE, yielded |-> <<>>, warned |-> <<>>]

\* No outcome of run is at hand
NoRun == [kind |-> "none", code |-> 0, dir |-> None, cmd |-> <<>>,
          command |-> <<>>, volumes |-> <<>>, tree |-> <<>>, outside |-> {}, log |-> <<>>,
          seen |-> <<>>]

\* Container.bind_file(path, dest, option)
BindFile(path, dest, option) ==
    /\ alive
    /\ nbinds < MaxBinds
    /\ path # ""
    /\ \E order \in Orderings(IF dest = None THEN Unrelative(path) ELSE {}) :
         LET entries == BindEntries(path, dest, option, order)
         IN  /\ bound_files' = UpdateAll(bound_files, entries)
             /\ targeted' = Retarget(targeted, entries)
             /\ lastBind' = [path |-> path, dest |-> dest, option |-> option,
                             recorded |-> { entries[i].dest : i \in 1..Len(entries) },
                             replaced |-> { entries[i].dest : i \in
                                 { k \in 1..Len(entries) :
                                     /\ IndexOf(bound_files, entries[k].dest) # 0
                                     /\ bound_files[IndexOf(bound_files, entries[k].dest)]
                                          # entries[k] } }]
    /\ nbinds' = nbinds + 1
    /\ lastEnum' = NoEnum
    /\ lastRun' = NoRun
    /\ UNCHANGED <<unlinked, planVars, toolVars, dataVars, pipeVars, temp_dir, staging, unref, nruns, alive>>

\* Container.bound: the triples yielded and the binds warned about
Triple(e) == <<e.path, e.dest, e.option>>

Existing(files) == SelectSeq(files, LAMBDA e : Exists(e.path))

\* Container.bound without the test of data.path.exists()
BoundYieldAll(files) == [i \in 1..Len(files) |-> Triple(files[i])]

BoundYield(files) ==
    [i \in 1..Len(Existing(files)) |-> Triple(Existing(files)[i])]

\* the (source, dest) pairs of the warnings logged
BoundWarn(files) ==
    LET missing == SelectSeq(files, LAMBDA e : ~Exists(e.path))
    IN  [i \in 1..Len(missing) |-> <<missing[i].path, missing[i].dest>>]

Enumerate ==
    /\ alive
    /\ lastEnum' = [done |-> TRUE,
                    yielded |-> BoundYield(bound_files),
                    warned |-> BoundWarn(bound_files)]
    /\ UNCHANGED <<unlinked, containerVars, planVars, toolVars, dataVars, pipeVars, shifterVars>>

\* The environment: a file of the host is removed, or put back
Unlink(p) ==
    /\ p \notin unlinked
    /\ unlinked' = unlinked \cup {p}
    /\ lastEnum' = NoEnum
    /\ lastRun' = NoRun
    /\ UNCHANGED <<containerVars, planVars, toolVars, dataVars, pipeVars, temp_dir, staging, unref, nruns, alive>>

Create(p) ==
    /\ p \in unlinked
    /\ unlinked' = unlinked \ {p}
    /\ lastEnum' = NoEnum
    /\ lastRun' = NoRun
    /\ UNCHANGED <<containerVars, planVars, toolVars, dataVars, pipeVars, temp_dir, staging, unref, nruns, alive>>

-----------------------------------------------------------------------------
(* The Shifter driver *)

CONTAINER_DIR == "/.e4s-cl"

Image == "image"

ShifterExecutable == "/usr/bin/shifter"

\* The binds made on a container that is run with Shifter
ShifterPaths == {"/h/x.so", "/h/lib"}

ShifterDests == {"/.e4s-cl/lib", "/.e4s-cl/lib/x.so", "/opt/x.so", "/etc/lib",
                 "/.e4s-clx/y"}

Commands == { <<"ldd", "--version">>, <<"a.out">> }

ExitCodes == {0, 1}

\* tempfile.TemporaryDirectory().name of the n-th directory made
StagingNames == <<"tmp1", "tmp2", "tmp3", "tmp4", "tmp5">>

StagingPath(name) == <<"/", "tmp", name>>

Basename(p) == p[Len(p)]

\* os.makedirs(dir, exist_ok=True) in the staging tree: it fails when dir, or
\* a directory on the way to it, is a regular file
MakeDirsFails(tree, where, dir) ==
    IF Contains(where, dir)
    THEN \E k \in Len(where)..Len(dir) :
           /\ SubSeq(dir, 1, k) \in DOMAIN tree
           /\ tree[SubSeq(dir, 1, k)].kind = "file"
    ELSE Exists(dir) /\ ~IsDir(dir)

MakeDirs(tree, where, dir) ==
    IF Contains(where, dir)
    THEN LET made == { SubSeq(dir, 1, k) : k \in Len(where)..Len(dir) }
         IN  [q \in DOMAIN tree \cup made |->
                IF q \in DOMAIN tree THEN tree[q]
                ELSE [kind |-> "dir", from |-> <<>>]]
    ELSE tree

\* where `cp -r source temporary` writes: into temporary when it is a directory
CpTarget(tree, source, temporary) ==
    IF temporary \in DOMAIN tree /\ tree[temporary].kind = "dir"
    THEN temporary \o <<Basename(source)>>
    ELSE temporary

\* cp refuses to replace a directory by a file and a file by a directory
CpFails(tree, source, temporary) ==
    LET target == CpTarget(tree, source, temporary)
    IN  /\ target \in DOMAIN tree
        /\ (tree[target].kind = "dir") # IsDir(source)

\* the staging tree after `cp -r source temporary`
Cp(tree, source, temporary) ==
    IF CpFails(tree, source, temporary) THEN tree
    ELSE LET target == CpTarget(tree, source, temporary)
         IN  [q \in DOMAIN tree \cup {target} |->
                IF q = target
                THEN [kind |-> IF IsDir(source) THEN "dir" ELSE "file",
                      from |-> source]
                ELSE tree[q]]

\* One turn of the loop of _setup_import with the staging branch left out:
\* a bind under CONTAINER_DIR is treated like any other
ImportStepNoStaging(where, acc, t) ==
    LET source == t[1]
        destination == AsPosix(t[2])
    IN  IF IsDir(source)
        THEN IF StartsWith(destination, "/etc")
             THEN [acc EXCEPT !.log = Append(@, <<"error", destination>>)]
             ELSE [acc EXCEPT !.volumes = Append(@, <<AsPosix(source), destination>>)]
        ELSE [acc EXCEPT !.log = Append(@, <<"warning", AsPosix(source)>>)]

\* One turn of the loop of _setup_import that binds whatever is not staged
ImportStepBindAll(where, acc, t) ==
    LET source == t[1]
        destination == AsPosix(t[2])
    IN  IF StartsWith(destination, CONTAINER_DIR)
        THEN acc
        ELSE [acc EXCEPT !.volumes = Append(@, <<AsPosix(source), destination>>)]

\* One turn of the loop of _setup_import, for the triple t of Container.bound
ImportStep(where, acc, t) ==
    LET source == t[1]
        destination == AsPosix(t[2])
    IN  IF StartsWith(destination, CONTAINER_DIR)
        THEN LET rebased == DropChars(destination, Len(CONTAINER_DIR) + 1)
                 temporary == JoinPath(where, PathOf(rebased))
             IN  IF MakeDirsFails(acc.tree, where, Parent(temporary))
                 THEN [acc EXCEPT !.raised = TRUE]
                 ELSE IF Contains(where, temporary)
                      THEN [acc EXCEPT !.tree =
                              Cp(MakeDirs(@, where, Parent(temporary)),
                                 source, temporary)]
                      ELSE [acc EXCEPT !.outside =
                              @ \cup {[at |-> temporary, from |-> source]}]
        ELSE IF IsDir(source)
             THEN IF StartsWith(destination, "/etc")
                  THEN [acc EXCEPT !.log = Append(@, <<"error", destination>>)]
                  ELSE [acc EXCEPT !.volumes =
                          Append(@, <<AsPosix(source), destination>>)]
             ELSE [acc EXCEPT !.log = Append(@, <<"warning", AsPosix(source)>>)]

RECURSIVE ImportLoop(_, _, _)
ImportLoop(where, acc, triples) ==
    IF triples = <<>> \/ acc.raised THEN acc
    ELSE ImportLoop(where, ImportStep(where, acc, Head(triples)), Tail(triples))

\* ShifterContainer._setup_import(where): the volumes, the staging tree, the
\* copies made outside of it, the log, and whether os.makedirs raised
SetupImportOf(where, files) ==
    ImportLoop(where,
               [volumes |-> << <<AsPosix(where), CONTAINER_DIR>> >>,
                tree |-> [q \in {where} |-> [kind |-> "dir", from |-> <<>>]],
                outside |-> {},
                log |-> <<>>,
                raised |-> FALSE],
               BoundYield(files))

SetupImport(where) == SetupImportOf(where, bound_files)

VolumeArg(v) == "--volume=" \o v[1] \o ":" \o v[2]

RECURSIVE JoinColon(_)
JoinColon(items) ==
    IF items = <<>> THEN ""
    ELSE IF Len(items) = 1 THEN items[1]
    ELSE items[1] \o ":" \o JoinColon(Tail(items))

\* str() of a (key, value) tuple of env.items()
TupleRepr(k, v) == "('" \o k \o "', '" \o v \o "')"

RECURSIVE KeysOf(_)
\* the keys of env, one after the other
KeysOf(m) ==
    IF DOMAIN m = {} THEN <<>>
    ELSE LET k == CHOOSE x \in DOMAIN m : TRUE
         IN  <<k>> \o KeysOf([y \in DOMAIN m \ {k} |-> m[y]])

\* ShifterContainer._prepare: the --env arguments
EnvList ==
    (IF ld_preload # <<>>
     THEN <<"--env=LD_PRELOAD=" \o JoinColon(ld_preload)>> ELSE <<>>)
    \o (IF ld_lib_path # <<>>
        THEN <<"--env=LD_LIBRARY_PATH=" \o JoinColon(ld_lib_path)>> ELSE <<>>)
    \o [i \in 1..Len(KeysOf(env)) |->
          "--env=" \o TupleRepr(KeysOf(env)[i], env[KeysOf(env)[i]])
                   \o "=" \o TupleRepr(KeysOf(env)[i], env[KeysOf(env)[i]])]

\* a command line with the caller's command ahead of the options
ContainerCmdCommandFirst(imported, command) ==
    <<ShifterExecutable>> \o command \o <<"--image=" \o Image>>
      \o EnvList
      \o [i \in 1..Len(imported.volumes) |-> VolumeArg(imported.volumes[i])]

\* ShifterContainer._prepare: the command line
ContainerCmd(imported, command) ==
    <<ShifterExecutable, "--image=" \o Image>>
      \o EnvList
      \o [i \in 1..Len(imported.volumes) |-> VolumeArg(imported.volumes[i])]
      \o command

\* The staging directories after a run that removes the one it made on its
\* way out
StagingAfterRunScoped(name) == staging

\* The staging directories after a run that made `name`: run removes nothing
StagingAfterRun(name) == staging \cup {name}

\* ShifterContainer.run(command): the executable is on the PATH or not, and
\* the container command ends with `code`
RunEffects(command, available, code) ==
    /\ nruns' = nruns + 1
    /\ lastEnum' = NoEnum
    /\ IF ~available
       THEN /\ lastRun' = [NoRun EXCEPT !.kind = "unavailable"]
            /\ UNCHANGED <<temp_dir, staging, unref>>
       ELSE LET name == StagingNames[nruns + 1]
                imported == SetupImport(StagingPath(name))
            IN  /\ temp_dir' = name
                /\ unref' = IF temp_dir = None THEN unref
                            ELSE unref \cup {temp_dir}
                /\ staging' = StagingAfterRun(name)
                /\ lastRun' =
                     [kind |-> IF imported.raised THEN "raised" ELSE "returned",
                      code |-> IF imported.raised THEN 0 ELSE code,
                      dir |-> name,
                      cmd |-> IF imported.raised THEN <<>>
                              ELSE ContainerCmd(imported, command),
                      command |-> command,
                      volumes |-> imported.volumes,
                      tree |-> imported.tree,
                      outside |-> imported.outside,
                      log |-> imported.log,
                      seen |-> BoundYield(bound_files)]
    /\ UNCHANGED <<unlinked, containerVars, planVars, toolVars, alive>>

ShifterRun(command, available, code) ==
    /\ alive
    /\ nruns < MaxRuns
    /\ RunEffects(command, available, code)
    /\ UNCHANGED <<dataVars, pipeVars>>

\* No outcome of get_data is at hand
NoGet == [kind |-> "none", ran |-> "none", code |-> 0,
          libc_before |-> "", libraries_before |-> <<>>,
          stdout_before |-> "", error |-> "", exit |-> 0]

EXIT_FAILURE == 1

\* handlers that tell the kinds of failure apart
HandleDistinct(error) ==
    CASE error = "BackendNotAvailableError" -> 2
      [] error = "AnalysisError" -> 3
      [] OTHER -> EXIT_FAILURE

\* error.handle(etype, value, tb) of the errors of the containers module:
\* the code the program ends with
Handle(error) ==
    CASE error \in {"BackendError", "BackendNotAvailableError",
                    "BackendUnsupported"} -> EXIT_FAILURE
      [] error = "AnalysisError" -> EXIT_FAILURE

\* the error get_data ends with, after a run that ended as `ran` with `code`
GetDataError(ran, failed) ==
    IF ran = "unavailable" THEN "BackendNotAvailableError"
    ELSE IF ran = "raised" THEN "OSError"
    ELSE IF failed THEN "AnalysisError"
    ELSE ""

\* the code the program ends with when get_data ended with `error`
ExitOf(error) ==
    IF error = "" THEN 0
    ELSE IF error = "OSError" THEN 1
    ELSE Handle(error)

\* `if code:` in get_data
CodeFails(code) == code # 0

\* get_data that takes the output of a failed command all the same
GetDataOutcomeLenient(code, out) ==
    /\ lastGet' = [NoGet EXCEPT !.kind = IF lastRun'.kind = "returned"
                                         THEN "returned" ELSE "other_error",
                                 !.ran = lastRun'.kind,
                                 !.code = lastRun'.code,
                                 !.libc_before = libc_v,
                                 !.stdout_before = sys_stdout,
                                 !.libraries_before = libraries]
    /\ libc_v' = IF lastRun'.kind = "returned" THEN out ELSE libc_v
    /\ sys_stdout' = IF lastRun'.kind = "returned" THEN sys_stdout ELSE "buffer"

\* Container.get_data after self.run(['ldd', '--version']): AnalysisError on
\* a code that is not 0, else libc_v is read from the output `out`
GetDataOutcome(code, out) ==
    /\ lastGet' = [NoGet EXCEPT !.kind =
                                   IF lastRun'.kind # "returned" THEN "other_error"
                                   ELSE IF CodeFails(code) THEN "analysis_error"
                                   ELSE "returned",
                                 !.error = GetDataError(lastRun'.kind, CodeFails(code)),
                                 !.exit = ExitOf(GetDataError(lastRun'.kind,
                                                              CodeFails(code))),
                                 !.ran = lastRun'.kind,
                                 !.code = lastRun'.code,
                                 !.libc_before = libc_v,
                                 !.stdout_before = sys_stdout,
                                 !.libraries_before = libraries]
    /\ libc_v' = IF lastRun'.kind = "returned" /\ ~CodeFails(code)
                 THEN out ELSE libc_v
    /\ sys_stdout' = IF lastRun'.kind = "returned" /\ ~CodeFails(code)
                     THEN sys_stdout ELSE "buffer"

\* Container.get_data()
GetData(available, code, out) ==
    /\ alive
    /\ ngets < MaxGets
    /\ ngets' = ngets + 1
    /\ RunEffects(<<"ldd", "--version">>, available, code)
    /\ GetDataOutcome(code, out)
    /\ UNCHANGED <<libraries, pipeVars>>

\* The finalizer of a TemporaryDirectory that nothing refers to any more
Collect(name) ==
    /\ name \in unref
    /\ unref' = unref \ {name}
    /\ staging' = staging \ {name}
    /\ lastEnum' = NoEnum
    /\ lastRun' = NoRun
    /\ UNCHANGED <<unlinked, containerVars, planVars, toolVars, dataVars, pipeVars, temp_dir, nruns, alive>>

\* The container object is let go of: nothing refers to temp_dir any more
Release ==
    /\ alive
    /\ alive' = FALSE
    /\ temp_dir' = None
    /\ unref' = IF temp_dir = None THEN unref ELSE unref \cup {temp_dir}
    /\ lastEnum' = NoEnum
    /\ lastRun' = NoRun
    /\ UNCHANGED <<unlinked, containerVars, planVars, toolVars, dataVars, pipeVars, staging, nruns>>

-----------------------------------------------------------------------------

-----------------------------------------------------------------------------
(* The introspection exchange: get_data of the packaged tree on the host,  *)
(* the analyze command in the guest, and the pipe between them             *)

\* os.read(fdr, 1024**3): the most one read takes
READ_MAX == 1073741824

JSON_FD == "__E4S_CL_JSON_FD"

E4S_CL_HOME == "/opt/e4s-cl"

CONTAINER_SCRIPT == "/.e4s-cl/script"

\* the script entrypoint.setUp() writes
ScriptName == "/tmp/script"

\* The sonames get_data may be asked about, and those resolve() finds in the guest
Sonames == {"libmpi.so.12", "libm.so.6", "libgone.so"}

GuestResolves == {"libmpi.so.12", "libm.so.6"}

\* The libc versions a guest may have
GuestLibcs == {"2.28", "2.31"}

\* What Container.run of a backend does: it runs a process and returns its
\* code, or, as the Shifter driver of the packaged tree, returns the command
Backends == {"process", "command"}

Digits == "0123456789"

RECURSIVE IntToStr(_)
\* str(n)
IntToStr(n) ==
    IF n < 0 THEN "-" \o IntToStr(0 - n)
    ELSE IF n < 10 THEN CharAt(Digits, n + 1)
    ELSE IntToStr(n \div 10) \o CharAt(Digits, (n % 10) + 1)

DigitValue(c) == CHOOSE d \in 0..9 : CharAt(Digits, d + 1) = c

RECURSIVE StrToNat(_, _)
StrToNat(s, acc) ==
    IF s = "" THEN acc
    ELSE StrToNat(DropChars(s, 1), 10 * acc + DigitValue(CharAt(s, 1)))

\* int(s)
StrToInt(s) ==
    IF StartsWith(s, "-") THEN 0 - StrToNat(DropChars(s, 1), 0)
    ELSE StrToNat(s, 0)

\* dict.get(key, default)
Get(m, key, default) == IF key \in DOMAIN m THEN m[key] ELSE default

\* an update that is lost
UpdateLost(m, key, value) == m

\* dict.update({key: value}) on a mapping
EnvUpdate(m, key, value) ==
    [k \in DOMAIN m \cup {key} |-> IF k = key THEN value ELSE m[k]]

\* os.pipe(): the lowest descriptor that is not open
LowestFree(open) ==
    CHOOSE n \in 3..(3 + Cardinality(open)) :
        /\ n \notin open
        /\ \A m \in 3..(n - 1) : m \in open

\* where resolve() finds a soname in the guest
GuestPath(soname) == "/usr/lib/" \o soname

GuestLibrary(soname) ==
    [soname |-> soname, path |-> GuestPath(soname), origin |-> "guest"]

\* LibrarySet: a mapping soname -> Library
LibrarySet(members) == [s \in { l.soname : l \in members } |->
                          CHOOSE l \in members : l.soname = s]

\* analyze with a placeholder of empty path for a soname that does not resolve
CacheWithPlaceholders(requested) ==
    LibrarySet({ IF s \in GuestResolves THEN GuestLibrary(s)
                 ELSE [soname |-> s, path |-> "", origin |-> "guest"] :
                 s \in requested })

\* analyze: the loop over args.libraries; a soname that does not resolve is
\* passed over
Cache(requested) ==
    LibrarySet({ GuestLibrary(s) : s \in requested \cap GuestResolves })

\* analyze: the sonames a warning is logged about
AnalyzeWarned(requested) == {}

Token(tok, key, value) == [tok |-> tok, key |-> key, value |-> value]

RECURSIVE Members(_)
Members(m) ==
    IF DOMAIN m = {} THEN <<>>
    ELSE LET k == CHOOSE x \in DOMAIN m : TRUE
         IN  <<Token("member", k, m[k])>>
               \o Members([y \in DOMAIN m \ {k} |-> m[y]])

\* json_dumps(obj).encode(): the document as a sequence of pieces, an
\* opening and a closing brace around one piece by member
JsonDumps(obj) ==
    <<Token("{", "", <<>>)>> \o Members(obj) \o <<Token("}", "", <<>>)>>

Malformed == [malformed |-> TRUE, object |-> <<>>]

\* json_loads(bytes.decode()): the object, or the failure to read one
JsonLoads(pieces) ==
    IF /\ Len(pieces) >= 2
       /\ pieces[1].tok = "{"
       /\ pieces[Len(pieces)].tok = "}"
       /\ \A i \in 2..(Len(pieces) - 1) : pieces[i].tok = "member"
    THEN [malformed |-> FALSE,
          object |-> [k \in { pieces[i].key : i \in 2..(Len(pieces) - 1) } |->
                        (CHOOSE i \in 2..(Len(pieces) - 1) :
                            pieces[i].key = k) ] ]
    ELSE Malformed

\* the value of member k of a document read back
MemberValue(pieces, decoded, k) == pieces[decoded.object[k]].value

\* brand(container), then bind_file(script_name, CONTAINER_SCRIPT)
GetDataBinds ==
    << BoundFile(CONTAINER_DIR \o "/packages", E4S_CL_HOME \o "/packages", READ_ONLY),
       BoundFile(CONTAINER_DIR \o "/conda", E4S_CL_HOME \o "/conda", READ_ONLY),
       BoundFile(CONTAINER_DIR \o "/bin", E4S_CL_HOME \o "/bin", READ_ONLY),
       BoundFile(CONTAINER_SCRIPT, ScriptName, READ_ONLY) >>

NoProcess == [pc |-> "none", environ |-> <<>>, libc |-> "", requested |-> {},
              cache |-> <<>>, warned |-> {},
              sent |-> <<>>, left |-> <<>>, code |-> 0]

IdleHost == [pc |-> "idle", fdr |-> 0, fdw |-> 0, fds |-> {}, code |-> 0,
             got |-> <<>>, err |-> "",
             readWhen |-> [pc |-> "none", code |-> 0]]

\* a run that starts the process and returns without waiting for it
WaitReturnsEarly(g) == g.pc \in {"started", "writing", "exited"}

\* Container.run returns once the process it started has ended
WaitReturns(g) == g.pc = "exited"

\* get_data(entrypoint, library_set) up to the call of run, which starts the
\* guest process when the backend runs one
GetDataStart(backend, requested, libc) ==
    /\ alive
    /\ host.pc \in {"idle", "done", "failed"}
    /\ nexch < MaxExchanges
    /\ nexch' = nexch + 1
    /\ bound_files' = UpdateAll(bound_files, GetDataBinds)
    /\ LET fdr == LowestFree(host.fds)
           fdw == LowestFree(host.fds \cup {fdr})
       IN  /\ env' = EnvUpdate(env, JSON_FD, IntToStr(fdw))
           /\ host' = [IdleHost EXCEPT
                         !.pc = IF backend = "process" THEN "wait" ELSE "failed",
                         !.err = IF backend = "process" THEN "" ELSE "InternalError",
                         !.fdr = fdr, !.fdw = fdw,
                         !.fds = host.fds \cup {fdr, fdw}]
           /\ guest' = IF backend = "process"
                       THEN [NoProcess EXCEPT !.pc = "started",
                                              !.environ = env',
                                              !.libc = libc,
                                              !.requested = requested]
                       ELSE NoProcess
    /\ pipe' = <<>>
    /\ UNCHANGED <<unlinked, nbinds, lastBind, targeted, lastEnum, ld_preload,
                   ld_lib_path, shifterVars, dataVars, toolVars>>

\* AnalyzeCommand.main up to os.write
GuestAnalyze ==
    /\ guest.pc = "started"
    /\ LET fd == StrToInt(Get(guest.environ, JSON_FD, "-1"))
       IN  guest' = IF fd = -1
                    THEN [guest EXCEPT !.pc = "exited", !.code = 1]
                    ELSE [guest EXCEPT !.pc = "writing",
                                       !.cache = Cache(guest.requested),
                                       !.warned = AnalyzeWarned(guest.requested),
                                       !.sent = JsonDumps(Cache(guest.requested)),
                                       !.left = JsonDumps(Cache(guest.requested))]
    /\ UNCHANGED <<unlinked, containerVars, planVars, toolVars, shifterVars, dataVars,
                   lastEnum, host, pipe, nexch>>

\* os.write(fd, ...) on a pipe: what the pipe has room for is taken, and the
\* call waits for room as long as some of the document is left
GuestWrite ==
    /\ guest.pc = "writing"
    /\ guest.left # <<>>
    /\ Len(pipe) < PipeCapacity
    /\ LET room == PipeCapacity - Len(pipe)
           k == IF Len(guest.left) < room THEN Len(guest.left) ELSE room
       IN  /\ pipe' = pipe \o SubSeq(guest.left, 1, k)
           /\ guest' = [guest EXCEPT !.left = SubSeq(@, k + 1, Len(@))]
    /\ UNCHANGED <<unlinked, containerVars, planVars, toolVars, shifterVars, dataVars,
                   lastEnum, host, nexch>>

\* AnalyzeCommand.main: return EXIT_SUCCESS once os.write has returned
GuestReturn ==
    /\ guest.pc = "writing"
    /\ guest.left = <<>>
    /\ guest' = [guest EXCEPT !.pc = "exited", !.code = 0]
    /\ UNCHANGED <<unlinked, containerVars, planVars, toolVars, shifterVars, dataVars,
                   lastEnum, host, pipe, nexch>>

\* The environment: the container process fails or is killed
GuestFails ==
    /\ guest.pc \in {"started", "writing"}
    /\ guest' = [guest EXCEPT !.pc = "exited", !.code = 1]
    /\ UNCHANGED <<unlinked, containerVars, planVars, toolVars, shifterVars, dataVars,
                   lastEnum, host, pipe, nexch>>

\* get_data: run returns the code, and `if code:` raises
HostReap ==
    /\ host.pc = "wait"
    /\ WaitReturns(guest)
    /\ host' = IF CodeFails(guest.code)
               THEN [host EXCEPT !.pc = "failed", !.code = guest.code,
                                 !.err = "InternalError"]
               ELSE [host EXCEPT !.pc = "read", !.code = guest.code]
    /\ UNCHANGED <<unlinked, containerVars, planVars, toolVars, shifterVars, dataVars,
                   lastEnum, guest, pipe, nexch>>

\* get_data: os.read(fdr, 1024**3) returns what the pipe holds, the document
\* is decoded, and libc_v and libraries are set from it
HostRead ==
    /\ host.pc = "read"
    /\ pipe # <<>>
    /\ LET n == IF Len(pipe) < READ_MAX THEN Len(pipe) ELSE READ_MAX
           got == SubSeq(pipe, 1, n)
           data == JsonLoads(got)
       IN  /\ pipe' = SubSeq(pipe, n + 1, Len(pipe))
           /\ host' = [host EXCEPT
                         !.pc = IF data.malformed THEN "failed" ELSE "done",
                         !.err = IF data.malformed THEN "JSONDecodeError" ELSE "",
                         !.got = got,
                         !.readWhen = [pc |-> guest.pc, code |-> guest.code]]
           /\ libc_v' = IF data.malformed THEN libc_v
                        ELSE IF "libc_version" \in DOMAIN data.object
                        THEN MemberValue(got, data, "libc_version")
                        ELSE "0.0.0"
           /\ libraries' = IF data.malformed THEN libraries
                           ELSE IF "libraries" \in DOMAIN data.object
                           THEN LibrarySet(MemberValue(got, data, "libraries"))
                           ELSE LibrarySet({})
    /\ UNCHANGED <<unlinked, containerVars, planVars, toolVars, shifterVars, sys_stdout,
                   ngets, lastGet, lastEnum, guest, nexch>>

-----------------------------------------------------------------------------
(* The functions of the package: each call leaves its arguments and its    *)
(* result in `call`                                                        *)

NoCall == [op |-> "none", input |-> <<>>, output |-> <<>>]

\* `sub in string`
InString(sub, string) ==
    \E i \in 1..(Len(string) - Len(sub) + 1) :
        SubSeq(string, i, i + Len(sub) - 1) = sub

-----------------------------------------------------------------------------
(* cf/compiler.py *)

GNU == 0
LLVM == 1
INTEL == 2
AMD == 3
PGI == 4
ARMCLANG == 5
FUJITSU == 6

gnu_check(string) == InString("GCC", string)
llvm_check(string) == InString("clang", string)
intel_check(string) == FALSE
amd_check(string) == InString("AMD", string)
pgi_check(string) == FALSE
armclang_check(string) == FALSE
fujitsu_check(string) == FALSE

\* CompilerVendor.checks[vendor](comment)
checks(vendor, comment) ==
    CASE vendor = GNU -> gnu_check(comment)
      [] vendor = LLVM -> llvm_check(comment)
      [] vendor = INTEL -> intel_check(comment)
      [] vendor = AMD -> amd_check(comment)
      [] vendor = PGI -> pgi_check(comment)
      [] vendor = ARMCLANG -> armclang_check(comment)
      [] vendor = FUJITSU -> fujitsu_check(comment)

\* an order of the checks that tries GNU first
precendenceGnuFirst == <<GNU, LLVM, AMD>>

\* CompilerVendor.precendence
precendence == <<AMD, LLVM, GNU>>

\* The files compiler_vendor is called on: the .comment sections of an ELF
\* file, or no ELF file that can be read
ElfFiles ==
    [ f \in {"/lib/gnu.so", "/lib/llvm.so", "/lib/rocm.so", "/lib/rocm2.so",
             "/lib/amdgcc.so", "/lib/mixed.so", "/lib/intel.so",
             "/lib/stripped.so", "/lib/text.txt", "/lib/absent.so",
             "/lib/secret.so", "/lib"} |->
        CASE f = "/lib/gnu.so" ->
               [elf |-> TRUE, error |-> "", comments |-> <<"GCC: (GNU) 9.3.0">>]
          [] f = "/lib/llvm.so" ->
               [elf |-> TRUE, error |-> "", comments |-> <<"clang version 11.0.0">>]
          [] f = "/lib/rocm.so" ->
               [elf |-> TRUE, error |-> "", comments |-> <<"AMD clang GCC">>]
          [] f = "/lib/rocm2.so" ->
               [elf |-> TRUE, error |-> "",
                comments |-> <<"GCC: (GNU) 8.5", "AMD clang version 13.0.0">>]
          [] f = "/lib/amdgcc.so" ->
               [elf |-> TRUE, error |-> "", comments |-> <<"GCC 9 AMD">>]
          [] f = "/lib/mixed.so" ->
               [elf |-> TRUE, error |-> "",
                comments |-> <<"GCC: (GNU) 9.3.0", "clang version 11">>]
          [] f = "/lib/intel.so" ->
               [elf |-> TRUE, error |-> "", comments |-> <<"Intel(R) oneAPI">>]
          [] f = "/lib/stripped.so" -> [elf |-> TRUE, error |-> "", comments |-> <<>>]
          [] f = "/lib/text.txt" ->
               [elf |-> FALSE, error |-> "ELFError", comments |-> <<>>]
          [] f = "/lib/absent.so" ->
               [elf |-> FALSE, error |-> "FileNotFoundError", comments |-> <<>>]
          [] f = "/lib/secret.so" ->
               [elf |-> FALSE, error |-> "PermissionError", comments |-> <<>>]
          [] f = "/lib" ->
               [elf |-> FALSE, error |-> "IsADirectoryError", comments |-> <<>>] ]

RECURSIVE JoinWith(_, _)
\* sep.join(items)
JoinWith(sep, items) ==
    IF items = <<>> THEN ""
    ELSE IF Len(items) = 1 THEN items[1]
    ELSE items[1] \o sep \o JoinWith(sep, Tail(items))

\* an except clause that leaves ELFError out
CaughtNoElfError == {"PermissionError", "FileNotFoundError", "IsADirectoryError"}

\* the errors the except clause of _get_comment names
Caught == {"PermissionError", "FileNotFoundError", "IsADirectoryError", "ELFError"}

\* the error _get_comment(elf_file) lets through to its caller, "" for none
GetCommentRaises(elf_file) ==
    IF ElfFiles[elf_file].error \in Caught THEN "" ELSE ElfFiles[elf_file].error

\* _get_comment(elf_file)
get_comment(elf_file) ==
    IF ElfFiles[elf_file].elf
    THEN JoinWith(" - ", ElfFiles[elf_file].comments)
    ELSE ""

RECURSIVE VendorLoop(_, _)
VendorLoop(order, comment) ==
    IF order = <<>> THEN GNU
    ELSE IF checks(Head(order), comment) THEN Head(order)
    ELSE VendorLoop(Tail(order), comment)

\* compiler_vendor(elf_file)
compiler_vendor(elf_file) == VendorLoop(precendence, get_comment(elf_file))

CompilerVendorCall(elf_file) ==
    /\ call' = [op |-> "compiler_vendor",
                input |-> [elf_file |-> elf_file,
                           error |-> ElfFiles[elf_file].error,
                           comment |-> get_comment(elf_file)],
                output |-> IF GetCommentRaises(elf_file) = ""
                           THEN compiler_vendor(elf_file) ELSE -1,
                raised |-> GetCommentRaises(elf_file)]
    /\ UNCHANGED <<unlinked, containerVars, lastEnum, planVars, shifterVars,
                   dataVars, pipeVars, registryVars>>

-----------------------------------------------------------------------------
(* cf/containers: the registry of backends *)

\* The container modules walk_packages may find: a module is its name and
\* its attributes
ContainerModules ==
    { [module_name |-> "e4s_cl.cf.containers.shifter",
       attrs |-> [a \in {"NAME", "MIMES", "CLASS"} |->
                    CASE a = "NAME" -> "shifter"
                      [] a = "MIMES" -> <<>>
                      [] a = "CLASS" -> "ShifterContainer"]],
      [module_name |-> "e4s_cl.cf.containers.singularity",
       attrs |-> [a \in {"NAME", "MIMES", "CLASS"} |->
                    CASE a = "NAME" -> "singularity"
                      [] a = "MIMES" -> <<".simg", ".sif">>
                      [] a = "CLASS" -> "SingularityContainer"]],
      [module_name |-> "e4s_cl.cf.containers.apptainer",
       attrs |-> [a \in {"NAME", "MIMES", "CLASS"} |->
                    CASE a = "NAME" -> "apptainer"
                      [] a = "MIMES" -> <<".sif">>
                      [] a = "CLASS" -> "ApptainerContainer"]],
      [module_name |-> "e4s_cl.cf.containers.broken",
       attrs |-> [a \in {"NAME", "MIMES"} |->
                    CASE a = "NAME" -> "broken"
                      [] a = "MIMES" -> <<".brk">>]] }

\* The classes the modules define, and the classes each derives from
Classes ==
    [c \in {"ShifterContainer", "SingularityContainer", "ApptainerContainer"} |->
        {c, "Container", "object"}]

\* assert_module(_module)
assert_module(module) == {"NAME", "CLASS"} \subseteq DOMAIN module.attrs

\* getattr(_module, attribute, default)
GetAttr(module, attribute, default) ==
    IF attribute \in DOMAIN module.attrs THEN module.attrs[attribute] ELSE default

\* The body of the loop over walk_packages, for one module
Register(module) ==
    /\ module \notin loaded
    /\ loaded' = loaded \cup {module}
    /\ IF ~assert_module(module)
       THEN UNCHANGED <<BACKENDS, EXPOSED_BACKENDS, MIMES>>
       ELSE /\ BACKENDS' = EnvUpdate(BACKENDS, module.attrs["NAME"], module.module_name)
            /\ EXPOSED_BACKENDS' =
                 IF ~GetAttr(module, "DEBUG_BACKEND", FALSE)
                 THEN Append(EXPOSED_BACKENDS, module.attrs["NAME"])
                 ELSE EXPOSED_BACKENDS
            /\ MIMES' = MIMES \o
                 [i \in 1..Len(GetAttr(module, "MIMES", <<>>)) |->
                    <<GetAttr(module, "MIMES", <<>>)[i], module.attrs["NAME"]>>]
    /\ call' = NoCall
    /\ UNCHANGED <<unlinked, containerVars, lastEnum, planVars, shifterVars,
                   dataVars, pipeVars>>

\* The images guess_backend is asked about
Images == {"/images/app.sif", "/images/app.simg", "/images/app.tar.brk",
           "/images/app", "/images/.sif", "/images/app.", "ubuntu:20.04"}

\* the index (1-based) of the last '.' of a name, or 0
LastDot(name) ==
    IF \E i \in 1..Len(name) : CharAt(name, i) = "."
    THEN CHOOSE i \in 1..Len(name) :
           /\ CharAt(name, i) = "."
           /\ \A j \in (i + 1)..Len(name) : CharAt(name, j) # "."
    ELSE 0

\* Path(path).suffix
Suffix(path) ==
    LET parts == PathOf(path)
        name == IF parts = <<>> \/ parts = <<"/">> THEN "" ELSE parts[Len(parts)]
        i == LastDot(name)
    IN  IF 1 < i /\ i < Len(name) THEN SubSeq(name, i, Len(name)) ELSE ""

\* guess_backend that settles for the first match
guess_backend_first(path) ==
    LET matches == SelectSeq(MIMES, LAMBDA x : x[1] = Suffix(path))
    IN  IF Len(matches) = 0 THEN None ELSE matches[1][2]

\* guess_backend(path)
guess_backend(path) ==
    LET matches == SelectSeq(MIMES, LAMBDA x : x[1] = Suffix(path))
    IN  IF Len(matches) # 1 THEN None ELSE matches[1][2]

GuessBackendCall(path) ==
    /\ call' = [op |-> "guess_backend",
                input |-> [path |-> path, suffix |-> Suffix(path)],
                output |-> guess_backend(path)]
    /\ UNCHANGED <<unlinked, containerVars, lastEnum, planVars, shifterVars,
                   dataVars, pipeVars, registryVars>>

\* The backend names a container is asked for
BackendNames == {"shifter", "singularity", "apptainer", "broken", "docker", None}

\* BACKENDS.get(name)
ModuleOf(name) == Get(BACKENDS, name, None)

\* a constructor that makes a plain Container whatever the name
ContainerNewBare(name) == [raised |-> "", class |-> "Container"]

\* Container.__new__(cls, image, name): the class of the object returned,
\* or the error raised
ContainerNew(name) ==
    LET module_name == ModuleOf(name)
    IN  IF module_name # None
        THEN LET module == CHOOSE mod \in loaded : mod.module_name = module_name
             IN  [raised |-> "", class |-> module.attrs["CLASS"]]
        ELSE [raised |-> "BackendUnsupported", class |-> None]

ContainerNewCall(name) ==
    /\ call' = [op |-> "Container", input |-> [name |-> name],
                output |-> ContainerNew(name)]
    /\ UNCHANGED <<unlinked, containerVars, lastEnum, planVars, shifterVars,
                   dataVars, pipeVars, registryVars>>

-----------------------------------------------------------------------------
(* cli/commands/__main__.py: the entry point *)

\* cli.commands_next(): the names of the sub-commands
Commands_next == {"launch", "execute", "analyze", "profile", "init", "help"}

\* LAUNCH_COMMAND.monicker
Monicker == "launch"

\* the option strings of the actions of the parser
OptionStrings == {"-h", "--help", "-V", "--version", "-v", "--verbose",
                  "-q", "--quiet", "-d", "--dry-run", "--slave"}

\* The words of the command lines given to the entry point
ArgvTokens == {"-v", "-q", "-V", "-np", "mpirun", "a.out", "launch"}

RECURSIVE SeqsUpTo(_, _)
\* the sequences of at most n elements of S
SeqsUpTo(S, n) ==
    IF n = 0 THEN {<<>>}
    ELSE LET shorter == SeqsUpTo(S, n - 1)
         IN  shorter \cup { Append(q, x) : q \in shorter, x \in S }

Argvs == SeqsUpTo(ArgvTokens, MaxArgv)

ElementsOf(argv) == { argv[i] : i \in 1..Len(argv) }

\* list.index(arg)
ListIndex(argv, arg) ==
    CHOOSE i \in 1..Len(argv) :
        /\ argv[i] = arg
        /\ \A j \in 1..(i - 1) : argv[j] # arg

\* list.insert(index, item), index counted from 1
ListInsert(argv, index, item) ==
    SubSeq(argv, 1, index - 1) \o <<item>> \o SubSeq(argv, index, Len(argv))

\* an insertion of the monicker behind the argument instead of before it
InsertLaunchAfter(argv) ==
    LET others == { i \in 1..Len(argv) : argv[i] \notin OptionStrings }
    IN  IF others = {} THEN argv
        ELSE LET i == CHOOSE k \in others : \A j \in others : k <= j
             IN  ListInsert(argv, ListIndex(argv, argv[i]) + 1, Monicker)

\* the loop `for arg in argv`: the monicker goes in at the index of the first
\* argument that is no option string, and the loop ends
InsertLaunch(argv) ==
    LET others == { i \in 1..Len(argv) : argv[i] \notin OptionStrings }
    IN  IF others = {} THEN argv
        ELSE LET i == CHOOSE k \in others : \A j \in others : k <= j
             IN  ListInsert(argv, ListIndex(argv, argv[i]), Monicker)

RECURSIVE ParseFrom(_, _, _, _, _)
\* ArgumentParser.parse_args with exit_on_error off, from word i on: the
\* words are parsed, an ArgumentError is raised, or the program exits
ParseFrom(argv, i, verbose, quiet, required_raises) ==
    IF i > Len(argv)
    THEN IF required_raises THEN "ArgumentError" ELSE "exit"
    ELSE LET arg == argv[i]
         IN  IF arg \in {"-h", "--help", "-V", "--version"} THEN "exit"
             ELSE IF arg \in {"-v", "--verbose"}
             THEN IF quiet THEN "ArgumentError"
                  ELSE ParseFrom(argv, i + 1, TRUE, quiet, required_raises)
             ELSE IF arg \in {"-q", "--quiet"}
             THEN IF verbose THEN "ArgumentError"
                  ELSE ParseFrom(argv, i + 1, verbose, TRUE, required_raises)
             ELSE IF StartsWith(arg, "-")
             THEN ParseFrom(argv, i + 1, verbose, quiet, required_raises)
             ELSE IF arg \in Commands_next
             THEN IF \E j \in 1..(i - 1) : argv[j] \notin OptionStrings
                  THEN "exit" ELSE "parsed"
             ELSE "ArgumentError"

ParseArgs(argv, required_raises) == ParseFrom(argv, 1, FALSE, FALSE, required_raises)

\* MainCommand._py38_parse(argv): argv as it is handed to _parse_args
py38_parse(argv) ==
    LET empty == Len(argv) = 0
        command == ElementsOf(argv) \cap Commands_next
    IN  IF ~empty /\ command = {} THEN InsertLaunch(argv) ELSE argv

\* MainCommand._py39_parse(argv): argv as it is when the method is left
py39_parse(argv, required_raises) ==
    LET empty == Len(argv) = 0
        command == ElementsOf(argv) \cap Commands_next
    IN  IF ParseArgs(argv, required_raises) # "ArgumentError" THEN argv
        ELSE IF empty \/ command # {} THEN argv
        ELSE InsertLaunch(argv)

\* MainCommand.main runs once in a process, and parses with one of the two
Py38Parse(argv) ==
    /\ call = NoCall
    /\ call' = [op |-> "_py38_parse",
                input |-> [argv |-> argv, first |-> "none"],
                output |-> py38_parse(argv)]
    /\ UNCHANGED <<unlinked, containerVars, lastEnum, planVars, shifterVars,
                   dataVars, pipeVars, registryVars>>

Py39Parse(argv, required_raises) ==
    /\ call = NoCall
    /\ call' = [op |-> "_py39_parse",
                input |-> [argv |-> argv,
                           first |-> ParseArgs(argv, required_raises)],
                output |-> py39_parse(argv, required_raises)]
    /\ UNCHANGED <<unlinked, containerVars, lastEnum, planVars, shifterVars,
                   dataVars, pipeVars, registryVars>>

-----------------------------------------------------------------------------
(* cli/commands/launch.py: the launch command *)

EXIT_SUCCESS == 0

\* the code ArgumentParser.error() ends the program with
PARSER_ERROR == 2

E4S_CL_SCRIPT == "/opt/e4s-cl/bin/e4s-cl"

\* str(execute_cmd): the command line of the execute command
ExecuteCmd == "e4s-cl execute"

RECURSIVE SplitSpace(_, _, _)
\* str.split(): the words between the spaces, from position i on
SplitSpace(s, i, cur) ==
    IF i > Len(s)
    THEN IF cur = "" THEN <<>> ELSE <<cur>>
    ELSE IF CharAt(s, i) = " "
         THEN (IF cur = "" THEN <<>> ELSE <<cur>>) \o SplitSpace(s, i + 1, "")
         ELSE SplitSpace(s, i + 1, cur \o CharAt(s, i))

\* util.interpret_launcher: the table of the known launchers, and those of
\* their options that take a value
Launchers == {"mpirun", "mpiexec", "srun", "jsrun", "prun", "aprun", "orterun"}

ValueFlags == {"-np", "-n"}

RECURSIVE LauncherEnd(_, _)
\* the position of the last word of the launcher and its options, i being
\* the first word not looked at yet
LauncherEnd(cmd, i) ==
    IF i > Len(cmd) THEN Len(cmd)
    ELSE IF ~StartsWith(cmd[i], "-") THEN i - 1
    ELSE IF cmd[i] \in ValueFlags THEN LauncherEnd(cmd, i + 2)
    ELSE LauncherEnd(cmd, i + 1)

\* util.interpret_launcher(cmd): (launcher, program)
interpret_launcher(cmd) ==
    IF cmd # <<>> /\ cmd[1] \in Launchers
    THEN LET last == LET e == LauncherEnd(cmd, 2)
                     IN  IF e > Len(cmd) THEN Len(cmd) ELSE e
         IN  <<SubSeq(cmd, 1, last), SubSeq(cmd, last + 1, Len(cmd))>>
    ELSE <<(<<>>), cmd>>

\* The profiles of the store: a dict each
Profiles ==
    { [name |-> "full", image |-> "/images/prof.sif", backend |-> "singularity",
       libraries |-> <<"/usr/lib/libmpi.so", "/usr/lib/libm.so">>,
       files |-> <<"/etc/hosts">>, source |-> "/home/setup.sh"],
      [name |-> "bare", backend |-> "", libraries |-> <<>>],
      [name |-> "partial", image |-> "/images/prof.sif", files |-> <<>>] }

\* The values the options of launch may be given on the command line, after
\* the type callbacks of the parser
CliValues ==
    [image |-> {"/images/cli.sif"},
     backend |-> {"shifter", ""},
     libraries |-> {<<"/opt/lib/libfabric.so">>,
                    <<"/opt/lib/libfabric.so", "/opt/lib/libpsm.so">>},
     files |-> {<<"/etc/passwd">>}]

\* The command lines launch may be given
LaunchCmds ==
    { <<>>,
      <<"./a.out">>,
      <<"./a.out", "-x">>,
      <<"mpirun", "-np", "2", "./a.out", "input">>,
      <<"srun", "--exclusive", "./a.out">> }

\* The codes the spawned process may end with
RetCodes == {0, 1}

\* `if d.get(attr, None)`: the key is there and its value is not empty
Truthy(d, attr) == attr \in DOMAIN d /\ Len(d[attr]) > 0

\* a merge in which the profile's value is kept when it has one
parametersProfileFirst(args, profile) ==
    LET given == { attr \in {"image", "backend", "libraries", "files"} :
                     Truthy(args, attr) /\ attr \notin DOMAIN profile }
    IN  [k \in DOMAIN profile \cup given |->
            IF k \in given THEN args[k] ELSE profile[k]]

\* _parameters(args): dict(profile), updated with the four attributes the
\* command line has a value for
parameters(args, profile) ==
    LET given == { attr \in {"image", "backend", "libraries", "files"} :
                     Truthy(args, attr) }
    IN  [k \in DOMAIN profile \cup given |->
            IF k \in given THEN args[k] ELSE profile[k]]

\* ["--attr", value] for a parameter that has a value
OptionOf(params, attr, value) ==
    IF Truthy(params, attr) THEN <<"--" \o attr, value>> ELSE <<>>

\* the head of the execute command: the script, --slave, and the words of
\* the execute command after the first
ExecuteHead(debug) ==
    LET words == SplitSpace(ExecuteCmd, 1, "")
        execute_command == <<E4S_CL_SCRIPT, "--slave">> \o Tail(words)
    IN  IF debug
        THEN <<execute_command[1]>> \o <<"--debug">> \o Tail(execute_command)
        ELSE execute_command

\* an execute command with the lists ahead of image and backend
format_execute_lists_first(params, debug) ==
    ExecuteHead(debug)
        \o (IF Truthy(params, "libraries")
            THEN OptionOf(params, "libraries", JoinWith(",", params["libraries"]))
            ELSE <<>>)
        \o (IF Truthy(params, "files")
            THEN OptionOf(params, "files", JoinWith(",", params["files"]))
            ELSE <<>>)
        \o (IF Truthy(params, "image")
            THEN OptionOf(params, "image", params["image"]) ELSE <<>>)
        \o (IF Truthy(params, "backend")
            THEN OptionOf(params, "backend", params["backend"]) ELSE <<>>)

\* _format_execute(parameters)
format_execute(params, debug) ==
    ExecuteHead(debug)
        \o (IF Truthy(params, "image")
            THEN OptionOf(params, "image", params["image"]) ELSE <<>>)
        \o (IF Truthy(params, "backend")
            THEN OptionOf(params, "backend", params["backend"]) ELSE <<>>)
        \o (IF Truthy(params, "libraries")
            THEN OptionOf(params, "libraries", JoinWith(",", params["libraries"]))
            ELSE <<>>)
        \o (IF Truthy(params, "files")
            THEN OptionOf(params, "files", JoinWith(",", params["files"]))
            ELSE <<>>)

\* the command lines' options: the attributes given, with a value each
Optional(values) == {<<>>} \cup { <<v>> : v \in values }

\* the options given, each with its value
ArgsOf(image, backend, libs, files) ==
    LET all == [image |-> image, backend |-> backend,
                libraries |-> libs, files |-> files]
    IN  [k \in { a \in DOMAIN all : all[a] # <<>> } |-> all[k][1]]

CliArgs ==
    { ArgsOf(image, backend, libs, files) :
        image \in Optional(CliValues.image),
        backend \in Optional(CliValues.backend),
        libs \in Optional(CliValues.libraries),
        files \in Optional(CliValues.files) }

\* LaunchCommand.main(argv), argv parsed into cmd and the options; retcode is
\* the code the spawned process ends with
Launch(cmd, args, profile, debug, retcode) ==
    /\ call = NoCall
    /\ call' =
         IF cmd = <<>>
         THEN [op |-> "launch",
               input |-> [cmd |-> cmd, args |-> args, profile |-> profile,
                          debug |-> debug, retcode |-> retcode],
               output |-> [spawned |-> FALSE, command |-> <<>>,
                           launcher |-> <<>>, program |-> <<>>,
                           parameters |-> profile, execute |-> <<>>,
                           code |-> PARSER_ERROR]]
         ELSE LET split == interpret_launcher(cmd)
                  launcher == split[1]
                  program == split[2]
                  params == parameters(args, profile)
                  execute_command == format_execute(params, debug)
              IN  [op |-> "launch",
                   input |-> [cmd |-> cmd, args |-> args, profile |-> profile,
                              debug |-> debug, retcode |-> retcode],
                   output |-> [spawned |-> TRUE,
                               command |-> launcher \o execute_command \o program,
                               launcher |-> launcher, program |-> program,
                               parameters |-> params,
                               execute |-> execute_command,
                               code |-> EXIT_SUCCESS]]
    /\ UNCHANGED <<unlinked, containerVars, lastEnum, planVars, shifterVars,
                   dataVars, pipeVars, registryVars>>

-----------------------------------------------------------------------------
(* Container: the environment of the guest *)

\* The variables bind_env_var is given, and the paths of the two lists
EnvKeys == {"K", "OMP"}

EnvValues == {"V", "4"}

LdPaths == {"/h/lib", "/opt/x.so"}

\* the container's plan, as an operation finds it and as it leaves it
PlanState(preload, lib_path, environ, files) ==
    [ld_preload |-> preload, ld_lib_path |-> lib_path, env |-> environ,
     bound_files |-> files]

\* list.append without the test of membership
AppendAlways(list, path) == Append(list, path)

\* `if path not in list: list.append(path)`
AppendOnce(list, path) ==
    IF \E i \in 1..Len(list) : list[i] = path THEN list ELSE Append(list, path)

\* Container.bind_env_var(key, value)
BindEnvVar(key, value) ==
    /\ alive
    /\ env' = EnvUpdate(env, key, value)
    /\ call' = [op |-> "bind_env_var",
                input |-> [key |-> key, value |-> value,
                           before |-> PlanState(ld_preload, ld_lib_path, env,
                                                bound_files)],
                output |-> PlanState(ld_preload, ld_lib_path, env', bound_files)]
    /\ lastEnum' = NoEnum
    /\ lastRun' = NoRun
    /\ UNCHANGED <<unlinked, containerVars, ld_preload, ld_lib_path, temp_dir,
                   staging, unref, nruns, alive, dataVars, pipeVars,
                   registryVars>>

\* Container.add_ld_preload(path)
AddLdPreload(path) ==
    /\ alive
    /\ ld_preload' = AppendOnce(ld_preload, path)
    /\ call' = [op |-> "add_ld_preload",
                input |-> [key |-> path, value |-> "",
                           before |-> PlanState(ld_preload, ld_lib_path, env,
                                                bound_files)],
                output |-> PlanState(ld_preload', ld_lib_path, env, bound_files)]
    /\ lastEnum' = NoEnum
    /\ lastRun' = NoRun
    /\ UNCHANGED <<unlinked, containerVars, env, ld_lib_path, temp_dir,
                   staging, unref, nruns, alive, dataVars, pipeVars,
                   registryVars>>

\* Container.add_ld_library_path(path)
AddLdLibraryPath(path) ==
    /\ alive
    /\ ld_lib_path' = AppendOnce(ld_lib_path, path)
    /\ call' = [op |-> "add_ld_library_path",
                input |-> [key |-> path, value |-> "",
                           before |-> PlanState(ld_preload, ld_lib_path, env,
                                                bound_files)],
                output |-> PlanState(ld_preload, ld_lib_path', env, bound_files)]
    /\ lastEnum' = NoEnum
    /\ lastRun' = NoRun
    /\ UNCHANGED <<unlinked, containerVars, env, ld_preload, temp_dir,
                   staging, unref, nruns, alive, dataVars, pipeVars,
                   registryVars>>

-----------------------------------------------------------------------------
(* cf/containers/shifter.py: the configuration file of Shifter *)

\* The lines a configuration file is made of, without their line ends
ConfigLines == {"A=1", " A = 2 ", "B=x\\", "#A=3", "junk"}

ConfigFiles == SeqsUpTo(ConfigLines, MaxLines)

EndsWith(s, suffix) ==
    /\ Len(s) >= Len(suffix)
    /\ SubSeq(s, Len(s) - Len(suffix) + 1, Len(s)) = suffix

RECURSIVE LStrip(_)
LStrip(s) == IF StartsWith(s, " ") THEN LStrip(DropChars(s, 1)) ELSE s

RECURSIVE RStripChar(_, _)
\* str.rstrip(c)
RStripChar(s, c) ==
    IF EndsWith(s, c) THEN RStripChar(SubSeq(s, 1, Len(s) - 1), c) ELSE s

\* str.strip()
Strip(s) == LStrip(RStripChar(s, " "))

\* str.split('=', 1)
SplitFirstEq(s) ==
    LET at == { i \in 1..Len(s) : CharAt(s, i) = "=" }
    IN  IF at = {} THEN <<s>>
        ELSE LET i == CHOOSE k \in at : \A j \in at : k <= j
             IN  <<SubSeq(s, 1, i - 1), DropChars(s, i)>>

RECURSIVE DeprettifyFrom(_, _, _)
\* _deprettify(lines): the loop, with the lines left and the buffer
DeprettifyFrom(lines, buffer, full_lines) ==
    IF lines = <<>> THEN full_lines
    ELSE LET joined == buffer \o Head(lines)
         IN  IF EndsWith(joined, "\\")
             THEN DeprettifyFrom(Tail(lines), RStripChar(joined, "\\"), full_lines)
             ELSE DeprettifyFrom(Tail(lines), "", Append(full_lines, joined))

deprettify(lines) == DeprettifyFrom(lines, "", <<>>)

RECURSIVE DictOf(_, _)
\* dict(entries): a key has the value of its last entry
DictOf(entries, acc) ==
    IF entries = <<>> THEN acc
    ELSE DictOf(Tail(entries), EnvUpdate(acc, Head(entries)[1], Head(entries)[2]))

\* _directives_to_dict(directives), the directives taken in the order given
directives_to_dict(directives) ==
    LET parts == [i \in 1..Len(directives) |-> SplitFirstEq(directives[i])]
        entries == SelectSeq(parts, LAMBDA x : Len(x) = 2)
    IN  DictOf([i \in 1..Len(entries) |->
                   <<Strip(entries[i][1]), Strip(entries[i][2])>>], <<>>)

\* the directives of a file: the full lines that are no comments
ConfigDirectives(lines) ==
    LET full == deprettify([i \in 1..Len(lines) |-> Strip(lines[i])])
    IN  { full[i] : i \in { k \in 1..Len(full) : ~StartsWith(full[k], "#") } }

\* the orders in which _directives_to_dict may be handed the directives of a
\* file: those of the iteration of a set
DirectiveOrderings(lines) == Orderings(ConfigDirectives(lines))

\* _parse_config(config_file), the file being there or not: the dict of a
\* run, and that of another run on the same file
ParseConfig(exists, lines) ==
    /\ call = NoCall
    /\ IF ~exists
       THEN call' = [op |-> "_parse_config",
                     input |-> [exists |-> exists, lines |-> lines],
                     output |-> [first |-> <<>>, second |-> <<>>]]
       ELSE \E first \in DirectiveOrderings(lines),
               second \in DirectiveOrderings(lines) :
              call' = [op |-> "_parse_config",
                       input |-> [exists |-> exists, lines |-> lines],
                       output |-> [first |-> directives_to_dict(first),
                                   second |-> directives_to_dict(second)]]
    /\ UNCHANGED <<unlinked, containerVars, lastEnum, planVars, shifterVars,
                   dataVars, pipeVars, registryVars>>

-----------------------------------------------------------------------------
(* Two runs of the program on the same input *)

\* The files a run binds, as they are named by the profile or the command line
PlanPaths == {"/a/b/../c", "/h/lib"}

PlanFiles == SeqsUpTo(PlanPaths, MaxBinds)

\* The command lines of the two runs: the image is given or not
PlanArgs == { args \in CliArgs : DOMAIN args \subseteq {"image"} }

\* for each bind_file call of a run, an order in which the set of
\* _unrelative is iterated in that process
OrdersFor(paths) ==
    { orders \in [1..Len(paths) -> UNION { Orderings(Unrelative(paths[i])) :
                                             i \in 1..Len(paths) }] :
        \A i \in 1..Len(paths) : orders[i] \in Orderings(Unrelative(paths[i])) }

RECURSIVE BindAll(_, _, _)
\* bind_file(path) for each path of a list, on the bind map `files`
BindAll(files, paths, orders) ==
    IF paths = <<>> THEN files
    ELSE BindAll(UpdateAll(files,
                           BindEntries(Head(paths), None, READ_ONLY, Head(orders))),
                 Tail(paths), Tail(orders))

\* what one run makes: the execute command of launch, and the command of
\* the Shifter driver for a new container the files are bound on
PlanOf(args, profile, debug, paths, orders, command) ==
    [execute |-> format_execute(parameters(args, profile), debug),
     backend |-> ContainerCmd(
                     SetupImportOf(StagingPath(StagingNames[1]),
                                   BindAll(<<>>, paths, orders)),
                     command)]

\* The program is run twice, on the same profile, command line and host
Plan(args, profile, debug, paths, command) ==
    /\ call = NoCall
    /\ \E first \in OrdersFor(paths), second \in OrdersFor(paths) :
         call' = [op |-> "plan",
                  input |-> [args |-> args, profile |-> profile, debug |-> debug,
                             paths |-> paths, command |-> command],
                  output |-> [first |-> PlanOf(args, profile, debug, paths,
                                               first, command),
                              second |-> PlanOf(args, profile, debug, paths,
                                                second, command)]]
    /\ UNCHANGED <<unlinked, containerVars, lastEnum, planVars, shifterVars,
                   dataVars, pipeVars, registryVars>>

-----------------------------------------------------------------------------

Init ==
    /\ unlinked = {}
    /\ bound_files = <<>>
    /\ nbinds = 0
    /\ lastBind = [path |-> "", dest |-> None, option |-> READ_ONLY,
                   recorded |-> {}, replaced |-> {}]
    /\ targeted = <<>>
    /\ lastEnum = NoEnum
    /\ env = <<>>
    /\ ld_preload = <<>>
    /\ ld_lib_path = <<>>
    /\ temp_dir = None
    /\ staging = {}
    /\ unref = {}
    /\ nruns = 0
    /\ alive = TRUE
    /\ lastRun = NoRun
    /\ libc_v = "0.0.0"
    /\ libraries = LibrarySet({})
    /\ sys_stdout = "stdout"
    /\ ngets = 0
    /\ lastGet = NoGet
    /\ host = IdleHost
    /\ guest = NoProcess
    /\ pipe = <<>>
    /\ nexch = 0
    /\ loaded = {}
    /\ BACKENDS = <<>>
    /\ EXPOSED_BACKENDS = <<>>
    /\ MIMES = <<>>
    /\ call = NoCall

Next ==
    \/ \E path \in BindPaths, dest \in BindDests \cup {None}, option \in FileOptions :
         BindFile(path, dest, option)
    \/ Enumerate
    \/ \E p \in Removable : Unlink(p)
    \/ \E p \in Removable : Create(p)

Spec == Init /\ [][Next]_vars

\* A container that is given binds and is run with the Shifter driver
NextShifter ==
    \/ \E path \in ShifterPaths, dest \in ShifterDests \cup {None} :
         BindFile(path, dest, READ_ONLY)
    \/ \E command \in Commands, available \in BOOLEAN, code \in ExitCodes :
         ShifterRun(command, available, code)
    \/ \E name \in unref : Collect(name)
    \/ Release

SpecShifter == Init /\ [][NextShifter]_vars

\* A container that is given an environment and is run with the Shifter driver
NextEnv ==
    \/ \E key \in EnvKeys, value \in EnvValues : BindEnvVar(key, value)
    \/ \E path \in LdPaths : AddLdPreload(path)
    \/ \E path \in LdPaths : AddLdLibraryPath(path)
    \/ \E command \in Commands, available \in BOOLEAN, code \in ExitCodes :
         ShifterRun(command, available, code)

SpecEnv == Init /\ [][NextEnv]_vars

\* The version `ldd --version` prints in the guest, as Version reads it
LddVersions == {"2.28", "2.31"}

\* A container whose guest is analysed with get_data
NextGetData ==
    \/ \E dest \in ShifterDests \cup {None} : BindFile("/h/lib", dest, READ_ONLY)
    \/ \E available \in BOOLEAN, code \in ExitCodes, out \in LddVersions :
         GetData(available, code, out)
    \/ \E name \in unref : Collect(name)

SpecGetData == Init /\ [][NextGetData]_vars

\* A container whose guest is analysed over the control pipe
NextPipe ==
    \/ \E backend \in Backends, requested \in SUBSET Sonames, libc \in GuestLibcs :
         GetDataStart(backend, requested, libc)
    \/ GuestAnalyze
    \/ GuestWrite
    \/ GuestReturn
    \/ GuestFails
    \/ HostReap
    \/ HostRead

SpecPipe == Init /\ [][NextPipe]_vars

\* The functions of the package, called one after the other
NextTools ==
    \/ \E elf_file \in DOMAIN ElfFiles : CompilerVendorCall(elf_file)
    \/ \E module \in ContainerModules : Register(module)
    \/ \E path \in Images : GuessBackendCall(path)
    \/ \E name \in BackendNames : ContainerNewCall(name)

SpecTools == Init /\ [][NextTools]_vars

\* The command line interface
NextCli ==
    \/ \E argv \in Argvs : Py38Parse(argv)
    \/ \E argv \in Argvs, required_raises \in BOOLEAN : Py39Parse(argv, required_raises)
    \/ \E cmd \in LaunchCmds, args \in CliArgs,
          profile \in Profiles, debug \in BOOLEAN, retcode \in RetCodes :
            Launch(cmd, args, profile, debug, retcode)

SpecCli == Init /\ [][NextCli]_vars

\* Two runs on the same input
NextPlan ==
    \E args \in PlanArgs, profile \in Profiles, debug \in BOOLEAN,
       paths \in PlanFiles, command \in Commands :
         Plan(args, profile, debug, paths, command)

SpecPlan == Init /\ [][NextPlan]_vars

\* The configuration file of Shifter is parsed
NextConfig ==
    \E exists \in BOOLEAN, lines \in ConfigFiles : ParseConfig(exists, lines)

SpecConfig == Init /\ [][NextConfig]_vars

-----------------------------------------------------------------------------
(* Properties of the bind map *)

Range(f) == { f[i] : i \in DOMAIN f }

\* C1: after any sequence of bind_file calls the bind map holds at most one
\* entry per destination, and the entry of a destination carries the source
\* and the option of the latest call that targeted that destination.
C1_LaterBindWins ==
    /\ \A i, j \in 1..Len(bound_files) :
         bound_files[i].dest = bound_files[j].dest => i = j
    /\ { bound_files[i].dest : i \in 1..Len(bound_files) } = DOMAIN targeted
    /\ \A i \in 1..Len(bound_files) :
         /\ bound_files[i].path = targeted[bound_files[i].dest].path
         /\ bound_files[i].option = targeted[bound_files[i].dest].option

\* a second call has replaced the differing entry of a destination
C1_Witness ==
    /\ nbinds = 2
    /\ lastBind.replaced # {}
    /\ Len(bound_files) = 1

\* C2: every triple that enumerating Container.bound yields has a source that
\* exists at enumeration time; a recorded bind whose source does not exist is
\* left out and warned about, and no other recorded bind is left out.
C2_BoundYieldsExisting ==
    lastEnum.done =>
        /\ \A t \in Range(lastEnum.yielded) : Exists(t[1])
        /\ \A e \in Range(bound_files) :
             /\ Exists(e.path) => Triple(e) \in Range(lastEnum.yielded)
             /\ ~Exists(e.path) => /\ <<e.path, e.dest>> \in Range(lastEnum.warned)
                                   /\ Triple(e) \notin Range(lastEnum.yielded)
        /\ \A t \in Range(lastEnum.yielded) :
             \E e \in Range(bound_files) : t = Triple(e)
        /\ Len(lastEnum.yielded) + Len(lastEnum.warned) = Len(bound_files)

\* an enumeration that yielded one bind and dropped another
C2_Witness ==
    /\ lastEnum.done
    /\ lastEnum.yielded # <<>>
    /\ lastEnum.warned # <<>>

\* some recorded bind is bound at its own source and has q in its tree
Covered(q) ==
    \E e \in Range(bound_files) : e.dest = e.path /\ Contains(e.dest, q)

\* C3: bind_file(path) without a destination, on a path with ".." parts,
\* records binds that cover every resolved directory preceding a ".." and the
\* fully resolved path, each bound at a destination equal to its source.
C3_DotDotCovered ==
    LET path == PathOf(lastBind.path)
    IN  (lastBind.dest = None /\ DotDotAt(path) # {}) =>
            /\ Covered(Resolve(path))
            /\ \A i \in DotDotAt(path) : Covered(Resolve(SubSeq(path, 1, i - 1)))
            /\ \A e \in Range(bound_files) :
                 e.dest \in lastBind.recorded => e.dest = e.path

\* /a/b/../c/f was bound: /a/b and /a/c/f are both in the map
C3_Witness ==
    /\ lastBind.path = "/a/b/../c/f"
    /\ lastBind.dest = None
    /\ \E e \in Range(bound_files) : e.dest = PathOf("/a/b") /\ e.path = e.dest
    /\ \E e \in Range(bound_files) : e.dest = PathOf("/a/c/f") /\ e.path = e.dest

-----------------------------------------------------------------------------
(* Properties of the Shifter driver *)

Mirror(d) == StagingPath(lastRun.dir) \o Tail(d)

\* d is a path inside CONTAINER_DIR, and no ".." is part of it
InsideContainerDir(d) ==
    /\ Contains(PathOf(CONTAINER_DIR), d)
    /\ d # PathOf(CONTAINER_DIR)
    /\ DotDotAt(d) = {}

\* the guest path d, inside CONTAINER_DIR, rebased to the staging root
Rebased(d) ==
    StagingPath(lastRun.dir)
      \o SubSeq(d, Len(PathOf(CONTAINER_DIR)) + 1, Len(d))

\* no other bind the run saw has a destination above or beneath d
NotNested(d) ==
    \A u \in Range(lastRun.seen) :
        u[2] # d => ~Contains(u[2], d) /\ ~Contains(d, u[2])

RegularFile(t) == ~IsDir(t[1])

\* the original statement of C5: every bound regular file is copied into the
\* staging directory at the path that mirrors its guest destination
\* (<staging>/opt/extra.so for /opt/extra.so), and the staging root is bound
C5_EveryFileStaged ==
    lastRun.kind = "returned" =>
        /\ lastRun.volumes[1][1] = AsPosix(StagingPath(lastRun.dir))
        /\ \A t \in Range(lastRun.seen) :
             RegularFile(t) =>
                \E at \in {Mirror(t[2])}
                          \cup (IF InsideContainerDir(t[2])
                                THEN {Rebased(t[2])} ELSE {}) :
                    /\ at \in DOMAIN lastRun.tree
                    /\ lastRun.tree[at] = [kind |-> "file", from |-> t[1]]

\* C5 (amended): under Shifter the staging root is bound at CONTAINER_DIR; a
\* bound regular file whose destination is a path inside CONTAINER_DIR, not
\* nested with another bind's destination, is copied to the staging directory
\* at its destination taken relative to CONTAINER_DIR; a regular file bound to
\* a destination that does not begin with CONTAINER_DIR (/opt/extra.so) is
\* neither copied into the staging directory nor passed as a volume.
C5_FilesStagedUnderContainerDir ==
    lastRun.kind = "returned" =>
        /\ lastRun.volumes[1] = <<AsPosix(StagingPath(lastRun.dir)), CONTAINER_DIR>>
        /\ \A t \in Range(lastRun.seen) :
             RegularFile(t) =>
                IF StartsWith(AsPosix(t[2]), CONTAINER_DIR)
                THEN (InsideContainerDir(t[2]) /\ NotNested(t[2])) =>
                        /\ Rebased(t[2]) \in DOMAIN lastRun.tree
                        /\ lastRun.tree[Rebased(t[2])]
                             = [kind |-> "file", from |-> t[1]]
                ELSE /\ Mirror(t[2]) \notin DOMAIN lastRun.tree
                     /\ \A q \in DOMAIN lastRun.tree : lastRun.tree[q].from # t[1]
                          \/ \E u \in Range(lastRun.seen) :
                               /\ u[1] = t[1]
                               /\ StartsWith(AsPosix(u[2]), CONTAINER_DIR)
                     /\ \A v \in Range(lastRun.volumes) : v[2] # AsPosix(t[2])

\* a run that staged the file bound inside CONTAINER_DIR and dropped the file
\* bound to /opt/x.so
C5_Witness ==
    /\ lastRun.kind = "returned"
    /\ \E t \in Range(lastRun.seen) :
         /\ RegularFile(t)
         /\ t[2] = PathOf("/.e4s-cl/lib/x.so")
         /\ lastRun.tree[Rebased(t[2])] = [kind |-> "file", from |-> t[1]]
    /\ \E t \in Range(lastRun.seen) :
         /\ RegularFile(t)
         /\ t[2] = PathOf("/opt/x.so")
    /\ <<"warning", "/h/x.so">> \in Range(lastRun.log)

\* C6: each --volume argument the Shifter driver emits, other than the one of
\* the staging root, has a directory as its source and a destination that is
\* not under /etc; no regular file is passed to Shifter as a volume.
C6_VolumesAreDirectories ==
    lastRun.kind = "returned" =>
        /\ { a \in Range(lastRun.cmd) : StartsWith(a, "--volume=") }
             = { VolumeArg(v) : v \in Range(lastRun.volumes) }
        /\ \A i \in 2..Len(lastRun.volumes) :
             /\ IsDir(PathOf(lastRun.volumes[i][1]))
             /\ ~IsFile(PathOf(lastRun.volumes[i][1]))
             /\ ~Contains(PathOf("/etc"), PathOf(lastRun.volumes[i][2]))

\* a run that bound one directory and refused another its place in /etc
C6_Witness ==
    /\ lastRun.kind = "returned"
    /\ Len(lastRun.volumes) = 2
    /\ <<"error", "/etc/lib">> \in Range(lastRun.log)

-----------------------------------------------------------------------------
(* Properties of get_data *)

-----------------------------------------------------------------------------
(* Properties of the introspection exchange *)

\* C7: in get_data the host reads the control descriptor only once the
\* analyze process has ended with exit status 0: never while it runs, and
\* never after it ended with another status.
C7_ReadOnlyAfterCleanExit ==
    /\ host.readWhen.pc # "none" =>
         /\ host.readWhen.pc = "exited"
         /\ host.readWhen.code = 0
    /\ (guest.pc = "exited" /\ guest.code # 0) => host.got = <<>>
    /\ host.pc \in {"read", "done"} => (guest.pc = "exited" /\ guest.code = 0)

\* the host has read the document of a guest that returned 0
C7_Witness ==
    /\ host.pc = "done"
    /\ host.readWhen = [pc |-> "exited", code |-> 0]
    /\ Len(host.got) > 2

\* the host waits for the guest to end while the guest waits for room in
\* the pipe
Deadlocked ==
    /\ host.pc = "wait"
    /\ guest.pc = "writing"
    /\ guest.left # <<>>
    /\ Len(pipe) = PipeCapacity

\* C8: the exchange over the control pipe ends and hands the whole document
\* to the host whatever its size: writer and reader never wait for each
\* other, and the host never reads a part of the document only.
C8_ExchangeCompletes ==
    /\ ~Deadlocked
    /\ host.pc = "done" => host.got = guest.sent
    /\ host.err # "JSONDecodeError"

\* C10: analyze writes one document to the descriptor named by
\* __E4S_CL_JSON_FD, with the guest's libc version under "libc_version" and
\* the resolved libraries under "libraries", and returns 0; get_data recovers
\* that libc version and that library set.
C10_DocumentCarriesLibcAndLibraries ==
    /\ (guest.pc = "exited" /\ guest.code = 0) =>
         LET data == JsonLoads(guest.sent)
         IN  /\ ~data.malformed
             /\ {"libc_version", "libraries"} \subseteq DOMAIN data.object
             /\ MemberValue(guest.sent, data, "libc_version") = guest.libc
    /\ host.pc = "done" =>
         /\ libc_v = guest.libc
         /\ libraries = Cache(guest.requested)

-----------------------------------------------------------------------------
(* Properties of the analyze command *)

\* analyze has been through its loop and has handed its document to os.write
Analyzed == guest.pc = "writing" \/ (guest.pc = "exited" /\ guest.sent # <<>>)

-----------------------------------------------------------------------------
(* Properties of compiler_vendor *)

\* C12: compiler_vendor answers AMD whenever the .comment text contains
\* 'AMD' (also when it contains 'clang' and 'GCC'), otherwise LLVM when it
\* contains 'clang', otherwise GNU; it answers no other vendor.
C12_VendorPrecedence ==
    call.op = "compiler_vendor" =>
        LET comment == call.input.comment
        IN  /\ InString("AMD", comment) => call.output = AMD
            /\ (~InString("AMD", comment) /\ InString("clang", comment)) =>
                 call.output = LLVM
            /\ (~InString("AMD", comment) /\ ~InString("clang", comment)) =>
                 call.output = GNU
            /\ call.output \in {AMD, LLVM, GNU}

\* a binary built with ROCm, whose comment holds the three names, is AMD's
C12_Witness ==
    /\ call.op = "compiler_vendor"
    /\ call.input.comment = "AMD clang GCC"
    /\ call.output = AMD

-----------------------------------------------------------------------------
(* Properties of the registry of backends *)

\* the places of MIMES whose suffix is the one of the image
Matching(suffix) == { i \in 1..Len(MIMES) : MIMES[i][1] = suffix }

\* C13: guess_backend(image) answers a backend only when exactly one
\* registered (suffix, backend) pair has the suffix of the image's file name,
\* and then answers the backend of that pair; when no pair or several pairs
\* have it, it answers None.
C13_GuessOnlyUniqueMatch ==
    call.op = "guess_backend" =>
        LET matching == Matching(call.input.suffix)
        IN  /\ Cardinality(matching) = 1 =>
                 \E i \in matching : call.output = MIMES[i][2]
            /\ Cardinality(matching) # 1 => call.output = None
            /\ call.input.path = "/images/app.sif" => call.input.suffix = ".sif"
            /\ call.input.path = "/images/app.tar.brk" => call.input.suffix = ".brk"
            /\ call.input.path \in {"/images/app", "/images/.sif", "/images/app."}
                 => call.input.suffix = ""

\* two backends claim .sif and guess_backend does not decide; one claims
\* .simg and it is the answer
C13_Witness ==
    /\ call.op = "guess_backend"
    /\ call.input.path = "/images/app.sif"
    /\ Cardinality(Matching(".sif")) = 2
    /\ call.output = None

\* C14: constructing a Container looks the backend name up in the table: for
\* a registered name the object is an instance of the class of the module
\* registered under that name, a class derived from Container and not
\* Container itself; for a name that is not registered a backend error is
\* raised and no object is made.
C14_ConstructByLookup ==
    call.op = "Container" =>
        LET name == call.input.name
        IN  /\ name \in DOMAIN BACKENDS =>
                 /\ call.output.raised = ""
                 /\ \E mod \in loaded :
                      /\ assert_module(mod)
                      /\ mod.attrs["NAME"] = name
                      /\ mod.module_name = BACKENDS[name]
                      /\ call.output.class = mod.attrs["CLASS"]
                 /\ "Container" \in Classes[call.output.class]
                 /\ call.output.class # "Container"
            /\ name \notin DOMAIN BACKENDS =>
                 /\ call.output.raised = "BackendUnsupported"
                 /\ call.output.class = None

\* with two backends registered, the second one's name gives its class
C14_Witness ==
    /\ call.op = "Container"
    /\ call.input.name = "singularity"
    /\ DOMAIN BACKENDS = {"shifter", "singularity"}
    /\ call.output.class = "SingularityContainer"

-----------------------------------------------------------------------------
(* Properties of the errors of the containers module *)

\* C15 as stated: a backend whose executable is not available ends the
\* program with exit code 2, a failed analysis of the container with exit
\* code 3, and both differ from the code of a configuration error such as a
\* backend that is not known.
C15_DistinctExitCodes ==
    /\ lastGet.error = "BackendNotAvailableError" => lastGet.exit = 2
    /\ lastGet.error = "AnalysisError" => lastGet.exit = 3
    /\ lastGet.error \in {"BackendNotAvailableError", "AnalysisError"} =>
         lastGet.exit # Handle("BackendUnsupported")

\* C15 amended: a backend whose executable is not available, a failed
\* analysis of the container and a backend that is not known all end the
\* program with the same code, EXIT_FAILURE: the exit code does not tell
\* these kinds of failure apart.
C15_SameExitCode ==
    /\ lastGet.error \in {"BackendNotAvailableError", "AnalysisError"} =>
         /\ lastGet.exit = EXIT_FAILURE
         /\ lastGet.exit = Handle("BackendUnsupported")
    /\ lastGet.error = "BackendNotAvailableError" <=> lastGet.ran = "unavailable"
    /\ lastGet.error = "AnalysisError" <=> lastGet.kind = "analysis_error"

\* the analysis of the container failed and the program ends with EXIT_FAILURE
C15_Witness ==
    /\ lastGet.error = "AnalysisError"
    /\ lastGet.code = 1
    /\ lastGet.exit = EXIT_FAILURE

-----------------------------------------------------------------------------
(* Properties of the entry point *)

\* argv with 'launch' put in once, right before word i
WithLaunchBefore(argv, i) ==
    [k \in 1..(Len(argv) + 1) |->
        IF k < i THEN argv[k] ELSE IF k = i THEN "launch" ELSE argv[k - 1]]

\* what the entry point is to make of argv
DefaultsToLaunch(argv, result) ==
    IF /\ argv # <<>>
       /\ \A k \in 1..Len(argv) : argv[k] \notin Commands_next
       /\ \E k \in 1..Len(argv) : argv[k] \notin OptionStrings
    THEN \E i \in 1..Len(argv) :
           /\ argv[i] \notin OptionStrings
           /\ \A k \in 1..(i - 1) : argv[k] \in OptionStrings
           /\ result = WithLaunchBefore(argv, i)
    ELSE result = argv

\* C19 as stated: for a command line that is not empty and has no word equal
\* to a sub-command name, the parser puts 'launch' in once, right before the
\* first word that is no top-level option string, the other words keeping
\* their order; a command line with a sub-command name, or of option strings
\* only, is left as it is. This for _py38_parse and for _py39_parse.
C19_LaunchIsDefault ==
    call.op \in {"_py38_parse", "_py39_parse"} =>
        DefaultsToLaunch(call.input.argv, call.output)

\* C19 amended: _py38_parse does as stated. _py39_parse parses the command
\* line as given first and does as stated when that parse raises an argument
\* error; when that parse ends the program (a help or version option before
\* the first positional word, or no positional word where argparse exits on a
\* missing argument) or succeeds, the command line is left as it is.
C19_LaunchIsDefaultOnError ==
    /\ call.op = "_py38_parse" => DefaultsToLaunch(call.input.argv, call.output)
    /\ call.op = "_py39_parse" =>
         IF call.input.first = "ArgumentError"
         THEN DefaultsToLaunch(call.input.argv, call.output)
         ELSE call.output = call.input.argv

\* 'launch' went in between the option and the launcher
C19_Witness ==
    /\ call.op = "_py39_parse"
    /\ call.input.argv = <<"-v", "mpirun", "a.out">>
    /\ call.output = <<"-v", "launch", "mpirun", "a.out">>

-----------------------------------------------------------------------------
(* Properties of the launch command *)

Launched == call.op = "launch" /\ call.output.spawned

\* C16: launch returns 0 only when the spawned launcher or program ended with
\* success, and returns the launcher error, 4, when it failed.
C16_LaunchPropagatesFailure ==
    Launched =>
        /\ call.output.code = 0 => call.input.retcode = 0
        /\ call.input.retcode # 0 => call.output.code = 4

MergedAttrs == {"image", "backend", "libraries", "files"}

\* a value is given on the command line when the option is there with a
\* value that is not empty
Given(attr) == attr \in DOMAIN call.input.args /\ call.input.args[attr] # ""

\* C17: in the merged parameters each of image, backend, libraries and files
\* has the value of the command line when one is given and that of the
\* profile otherwise (none when the profile has none), and every other field
\* of the profile is there unchanged.
C17_CliOverridesProfile ==
    Launched =>
        LET args == call.input.args
            profile == call.input.profile
            merged == call.output.parameters
        IN  /\ \A attr \in MergedAttrs :
                 IF Given(attr)
                 THEN attr \in DOMAIN merged /\ merged[attr] = args[attr]
                 ELSE IF attr \in DOMAIN profile
                 THEN attr \in DOMAIN merged /\ merged[attr] = profile[attr]
                 ELSE attr \notin DOMAIN merged
            /\ \A k \in DOMAIN profile \ MergedAttrs :
                 k \in DOMAIN merged /\ merged[k] = profile[k]
            /\ DOMAIN merged \subseteq DOMAIN profile \cup MergedAttrs

\* the command line overrode one field, the profile gave another, and a field
\* launch does not merge passed through
C17_Witness ==
    /\ Launched
    /\ call.input.profile.name = "full"
    /\ DOMAIN call.input.args = {"image"}
    /\ call.output.parameters.image = "/images/cli.sif"
    /\ call.output.parameters.backend = "singularity"
    /\ call.output.parameters.source = "/home/setup.sh"

\* the words of a list, with commas between them
RECURSIVE CommaList(_)
CommaList(items) ==
    IF Len(items) = 1 THEN items[1]
    ELSE items[1] \o "," \o CommaList(Tail(items))

\* the option of the execute command for an attribute the merged parameters
\* define, nothing for one they do not
ExpectedOption(merged, attr) ==
    IF attr \notin DOMAIN merged THEN <<>>
    ELSE IF attr \in {"image", "backend"}
    THEN IF merged[attr] = "" THEN <<>> ELSE <<"--" \o attr, merged[attr]>>
    ELSE IF merged[attr] = <<>> THEN <<>>
         ELSE <<"--" \o attr, CommaList(merged[attr])>>

\* C18: the command line launch spawns is the launcher words, the execute
\* command and the program words, in that order; the execute command ends
\* with --image, --backend, --libraries and --files in that order, each there
\* only when the merged parameters define it; launcher and program words are
\* those given, in the order given, and the program is not empty.
C18_SpawnedCommand ==
    Launched =>
        LET cmd == call.input.cmd
            out == call.output
            options == ExpectedOption(out.parameters, "image")
                         \o ExpectedOption(out.parameters, "backend")
                         \o ExpectedOption(out.parameters, "libraries")
                         \o ExpectedOption(out.parameters, "files")
        IN  /\ out.command = out.launcher \o out.execute \o out.program
            /\ out.launcher \o out.program = cmd
            /\ \/ out.launcher = <<>>
               \/ out.launcher[1] \in Launchers
            /\ out.execute[1] = E4S_CL_SCRIPT
            /\ \E n \in 1..Len(out.execute) :
                 /\ out.execute[n] = "execute"
                 /\ \A k \in 2..(n - 1) : out.execute[k] \in {"--slave", "--debug"}
                 /\ SubSeq(out.execute, n + 1, Len(out.execute)) = options

\* mpirun and its option stay ahead, the program and its argument behind, and
\* the execute command has the four options
C18_Witness ==
    /\ Launched
    /\ call.input.cmd = <<"mpirun", "-np", "2", "./a.out", "input">>
    /\ call.output.command =
         <<"mpirun", "-np", "2", E4S_CL_SCRIPT, "--slave", "execute",
           "--image", "/images/cli.sif", "--backend", "singularity",
           "--libraries", "/opt/lib/libfabric.so,/opt/lib/libpsm.so",
           "--files", "/etc/hosts", "./a.out", "input">>

-----------------------------------------------------------------------------
(* Properties of two runs *)

\* C20: two runs on the same profile, the same command line arguments and the
\* same host file system make the same execute command and the same command
\* line of the Shifter driver (the name of the staging directory aside).
C20_PlanDeterministic ==
    call.op = "plan" => call.output.first = call.output.second

-----------------------------------------------------------------------------
(* Properties of the environment of the guest *)

\* C21: for every entry (K, V) of env, the command line of the Shifter driver
\* has the argument --env=K=V, with the value of the variable and not its
\* name a second time.
C21_EnvArgumentsCarryValues ==
    lastRun.kind = "returned" =>
        \A k \in DOMAIN env :
            \E i \in 1..Len(lastRun.cmd) :
                lastRun.cmd[i] = "--env=" \o k \o "=" \o env[k]

\* C23: the command line the driver builds in run has the image given at
\* construction, and ends with the words of the caller's command, unchanged
\* and in their order, behind all the options of the backend.
C23_CommandEndsWithCallersWords ==
    lastRun.kind = "returned" =>
        LET cmd == lastRun.cmd
            n == Len(cmd) - Len(lastRun.command)
        IN  /\ n >= 1
            /\ SubSeq(cmd, n + 1, Len(cmd)) = lastRun.command
            /\ \A i \in 2..n : StartsWith(cmd[i], "--")
            /\ \E i \in 2..n : cmd[i] = "--image=" \o Image

\* a run with options of all kinds ahead of a command of two words
C23_Witness ==
    /\ lastRun.kind = "returned"
    /\ lastRun.command = <<"ldd", "--version">>
    /\ DOMAIN env # {}
    /\ ld_preload # <<>>
    /\ Len(lastRun.cmd) >= 6

NoDuplicate(list) ==
    \A i, j \in 1..Len(list) : list[i] = list[j] => i = j

IsPrefix(short, long) ==
    Len(short) <= Len(long) /\ SubSeq(long, 1, Len(short)) = short

\* what add_ld_preload or add_ld_library_path is to make of the list it is
\* called on
AddedOnce(before, after, path) ==
    /\ NoDuplicate(after)
    /\ IsPrefix(before, after)
    /\ \E i \in 1..Len(after) : after[i] = path
    /\ (\E i \in 1..Len(before) : before[i] = path) => after = before
    /\ Len(after) <= Len(before) + 1

\* C26: after any calls of add_ld_preload and add_ld_library_path neither
\* list has an entry twice, and the entries are in the order they first came
\* in (a call keeps what the list held as a prefix and adds the new path at the
\* end); adding a path that is there changes nothing; each operation leaves
\* the other list, env and the bind map as they were.
C26_LdListsOrderedSets ==
    /\ NoDuplicate(ld_preload)
    /\ NoDuplicate(ld_lib_path)
    /\ call.op = "add_ld_preload" =>
         /\ AddedOnce(call.input.before.ld_preload, call.output.ld_preload,
                      call.input.key)
         /\ call.output.ld_lib_path = call.input.before.ld_lib_path
         /\ call.output.env = call.input.before.env
         /\ call.output.bound_files = call.input.before.bound_files
    /\ call.op = "add_ld_library_path" =>
         /\ AddedOnce(call.input.before.ld_lib_path, call.output.ld_lib_path,
                      call.input.key)
         /\ call.output.ld_preload = call.input.before.ld_preload
         /\ call.output.env = call.input.before.env
         /\ call.output.bound_files = call.input.before.bound_files

\* a path is added to a list that holds it, behind another one
C26_Witness ==
    /\ call.op = "add_ld_preload"
    /\ call.input.key = "/h/lib"
    /\ call.input.before.ld_preload = <<"/h/lib", "/opt/x.so">>
    /\ call.output.ld_preload = <<"/h/lib", "/opt/x.so">>
    /\ call.output.ld_lib_path # <<>>

-----------------------------------------------------------------------------
(* Properties of get_data: what it leaves behind *)

\* C22: both ends of the pipe get_data opens are closed by the time get_data
\* returns or raises, on the normal exit and on every error exit.
C22_PipeEndsReleased ==
    host.pc \in {"done", "failed"} =>
        /\ host.fdr \notin host.fds
        /\ host.fdw \notin host.fds

\* C25: a get_data that succeeds returns a library set with the data of the
\* guest's copies of the libraries asked for, and the libraries attribute of
\* the container holds that set after the call.
C25_ReturnsGuestLibraries ==
    host.pc = "done" =>
        libraries = LibrarySet({ GuestLibrary(soname) :
                                   soname \in guest.requested \cap GuestResolves })

\* C28: get_data leaves sys.stdout as it was: when it returns, or raises the
\* analysis error, sys.stdout is the stream it was before the call and not
\* the buffer the output was captured in.
C28_StdoutRestored ==
    lastGet.kind \in {"returned", "analysis_error"} =>
        /\ sys_stdout = lastGet.stdout_before
        /\ sys_stdout # "buffer"

-----------------------------------------------------------------------------
(* Properties of the reader of ELF comments *)

\* C24: when the file given to compiler_vendor cannot be read as ELF (it is
\* missing, may not be read, is a directory, or is no well-formed ELF), the
\* reader gives an empty comment and raises nothing to the caller, and
\* compiler_vendor answers GNU, the default.
C24_UnreadableFileIsGnu ==
    (call.op = "compiler_vendor"
       /\ call.input.error \in {"FileNotFoundError", "PermissionError",
                                "IsADirectoryError", "ELFError"}) =>
        /\ call.raised = ""
        /\ call.input.comment = ""
        /\ call.output = GNU

\* a file that is no ELF file was given, and the answer is GNU
C24_Witness ==
    /\ call.op = "compiler_vendor"
    /\ call.input.elf_file = "/lib/text.txt"
    /\ call.input.error = "ELFError"
    /\ call.output = GNU

-----------------------------------------------------------------------------
(* Properties of the paths bind_file records *)

\* p is the path root, or a path of the tree below root
InTree(root, p) == Len(root) <= Len(p) /\ SubSeq(p, 1, Len(root)) = root

\* C27: the paths bind_file(path) records when no destination is given are
\* an antichain that covers what was visited: no recorded path is inside the
\* tree of another one, and the path given, its resolved form and every
\* resolved directory ahead of a '..' part are each inside the tree of, or
\* equal to, a recorded path.
C27_RecordedAntichainCovers ==
    (lastBind.dest = None /\ lastBind.path # "") =>
        LET path == PathOf(lastBind.path)
            recorded == lastBind.recorded
            visited == {path, Resolve(path)}
                         \cup { Resolve(SubSeq(path, 1, i - 1)) :
                                  i \in { k \in 1..Len(path) : path[k] = ".." } }
        IN  /\ \A r1, r2 \in recorded : InTree(r1, r2) => r1 = r2
            /\ \A v \in visited : \E r \in recorded : InTree(r, v)

\* /l/c/../c/f, below a link, was bound: the path as given and the directory
\* /a/c are recorded, the resolved file, inside /a/c, is not
C27_Witness ==
    /\ lastBind.path = "/l/c/../c/f"
    /\ lastBind.dest = None
    /\ lastBind.recorded = {PathOf("/l/c/../c/f"), PathOf("/a/c")}

-----------------------------------------------------------------------------
(* Properties of the parser of the Shifter configuration *)

\* the full directives of a file, in the order of the file
FullDirectives(lines) ==
    LET full == deprettify([i \in 1..Len(lines) |-> Strip(lines[i])])
    IN  SelectSeq(full, LAMBDA x :
            ~StartsWith(x, "#") /\ \E i \in 1..Len(x) : CharAt(x, i) = "=")

KeyOf(directive) == Strip(SplitFirstEq(directive)[1])

ValueOf(directive) == Strip(SplitFirstEq(directive)[2])

\* the dict has the keys of the directives, each with the value of the last
\* directive of the file that defines it
LastDirectiveWins(lines, result) ==
    LET directives == FullDirectives(lines)
    IN  /\ DOMAIN result = { KeyOf(directives[i]) : i \in 1..Len(directives) }
        /\ \A i \in 1..Len(directives) :
             (\A j \in (i + 1)..Len(directives) :
                 KeyOf(directives[j]) # KeyOf(directives[i]))
               => result[KeyOf(directives[i])] = ValueOf(directives[i])

\* C29: what parsing a configuration file gives depends on the contents of
\* the file only: a key that several directives define has the value of the
\* directive that is last in the file, on every run; directives without '='
\* and comment lines give no key.
C29_LastDirectiveWins ==
    (call.op = "_parse_config" /\ call.input.exists) =>
        /\ LastDirectiveWins(call.input.lines, call.output.first)
        /\ LastDirectiveWins(call.input.lines, call.output.second)
        /\ call.output.first = call.output.second

-----------------------------------------------------------------------------
(* Properties of the registry after registration *)

====
